---- MODULE Spec2Model ----
(***************************************************************************)
(* A model of dexter's Druckenmiller analysis: the three metric scorers    *)
(* (analyze_growth_and_momentum, analyze_risk_reward, analyze_valuation),  *)
(* the per-ticker loop of stanley_druckenmiller_agent, the line-item       *)
(* normalizer yf_search_line_items and the insider-trade tool              *)
(* yf_get_insider_trades; and of the shell around it: the chat model       *)
(* factory and retry loops of model.py, the Tavily search client and the   *)
(* loop of cli.main.                                                       *)
(*                                                                         *)
(* Conventions.                                                            *)
(*  - A Python dict is a function whose DOMAIN is the set of keys that map *)
(*    to a value other than None; dict.get(k) is Get(d, k), an optional    *)
(*    value: << >> for None, <<v>> for the value v.                        *)
(*  - Numbers are integers (money in whole units, closes in whole units);  *)
(*    a value that is not a number (a str such as "n/a") is the reserved   *)
(*    code Text, and a NaN close the reserved code NaN; no number of the   *)
(*    model equals either.  Every ratio the code compares to a threshold   *)
(*    is compared exactly by cross-multiplication.  Where IEEE double      *)
(*    evaluation differs from the exact comparison this is said at the     *)
(*    definition.                                                          *)
(*  - Scores are kept in hundredths (score 3.33 is 333), the reported      *)
(*    composite score in tenths (15.6 is 156).                             *)
(*  - A rationale sentence is the text of the f-string with its formatted  *)
(*    number left as the template, e.g. "...: {rev_growth:.1%}".           *)
(***************************************************************************)
EXTENDS Integers, Sequences, FiniteSets, TLC

(***************************************************************************)
(* Python values                                                           *)
(***************************************************************************)

\* Python's None, as an optional value.
None == << >>

\* dict.get(k): the value under k, or None.
Get(d, k) == IF k \in DOMAIN d THEN <<d[k]>> ELSE None

\* [x.get(k) for x in items if x.get(k) is not None]
RECURSIVE ValuesRange(_, _, _, _)
ValuesRange(items, k, lo, hi) ==
    IF lo > hi THEN << >>
    ELSE IF lo = hi
    THEN IF k \in DOMAIN items[lo] THEN <<items[lo][k]>> ELSE << >>
    ELSE ValuesRange(items, k, lo, (lo + hi) \div 2)
             \o ValuesRange(items, k, ((lo + hi) \div 2) + 1, hi)

Values(items, k) == ValuesRange(items, k, 1, Len(items))

\* A value that is not a number: a non-empty str.  Ordering it against a
\* number, or using it in a subtraction or a division, raises TypeError.
Text == -999999

\* float("nan"), as a close price: a float that every ordering test against a
\* number answers with False, and that arithmetic hands on.
NaN == -999998

\* isinstance(v, (int, float))
IsNumber(v) == v # Text

\* The dict with the keys of opt whose optional value is present.
MkDict(opt) == [k \in {f \in DOMAIN opt : opt[f] # None} |-> opt[k][1]]

Min(a, b) == IF a <= b THEN a ELSE b

Abs(a) == IF a < 0 THEN -a ELSE a

RECURSIVE Gcd(_, _)
Gcd(ga, gb) == IF gb = 0 THEN Abs(ga) ELSE Gcd(gb, ga % Abs(gb))

RECURSIVE Pow(_, _)
Pow(base, e) == IF e = 0 THEN 1 ELSE base * Pow(base, e - 1)

(***************************************************************************)
(* The outcome of one sub-scale (one block of a scorer): the raw points it *)
(* adds, the sentence it appends to details, or the exception it raises.   *)
(***************************************************************************)

Sub(points, sentence) == [pts |-> points, msg |-> sentence, raised |-> FALSE]

\* An exception leaving the block: the scorer does not return.
Raise(exc) == [pts |-> 0, msg |-> exc, raised |-> TRUE]

\* What a scorer call yields: a dict {"score", "details"}, or an exception.
Result(s, d) == [raised |-> FALSE, score |-> s, details |-> d]

Raised(exc) == [raised |-> TRUE, score |-> 0, details |-> exc]

\* "; ".join(details)
RECURSIVE Join(_)
Join(sentences) ==
    IF Len(sentences) = 0 THEN ""
    ELSE IF Len(sentences) = 1 THEN sentences[1]
    ELSE sentences[1] \o "; " \o Join(Tail(sentences))

\* float(f"{min(10, (raw_score / max_raw) * 10):.2f}"), in hundredths.  The
\* quotient raw*1000/max_raw is never halfway between two hundredths for
\* max_raw in {6, 8, 9}, so rounding to nearest needs no tie rule.
ScaleScore(raw_score, max_raw) ==
    IF raw_score * 10 > 10 * max_raw THEN 1000
    ELSE (2 * raw_score * 1000 + max_raw) \div (2 * max_raw)

\* raw_score = 0 at the head of a scorer, then raw_score += points per block.
RECURSIVE SumPoints(_)
SumPoints(subs) ==
    IF Len(subs) = 0 THEN 0 ELSE subs[1].pts + SumPoints(Tail(subs))

\* A return statement that keeps only the sentences of the blocks that scored.
RECURSIVE ScoredSentences(_)
ScoredSentences(subs) ==
    IF Len(subs) = 0 THEN << >>
    ELSE (IF subs[1].pts > 0 THEN <<subs[1].msg>> ELSE << >>)
             \o ScoredSentences(Tail(subs))

FinishScoredOnly(subs, max_raw) ==
    IF \E i \in 1..Len(subs) : subs[i].raised
    THEN Raised(subs[CHOOSE i \in 1..Len(subs) :
                         subs[i].raised /\ \A j \in 1..(i - 1) : ~subs[j].raised].msg)
    ELSE Result(ScaleScore(SumPoints(subs), max_raw), Join(ScoredSentences(subs)))

\* The return statement of a scorer after its blocks ran in order: the first
\* exception raised by a block leaves the scorer, otherwise the scaled score
\* and the joined details.
Finish(subs, max_raw) ==
    IF \E i \in 1..Len(subs) : subs[i].raised
    THEN Raised(subs[CHOOSE i \in 1..Len(subs) :
                         subs[i].raised /\ \A j \in 1..(i - 1) : ~subs[j].raised].msg)
    ELSE Result(ScaleScore(SumPoints(subs), max_raw),
                Join([i \in 1..Len(subs) |-> subs[i].msg]))

(***************************************************************************)
(* analyze_growth_and_momentum                                             *)
(***************************************************************************)

\* (latest / older) ** (1 / num_years) - 1 > pct / 100, for latest, older > 0.
\* Exactly, latest * 100^n > older * (100 + pct)^n.  In IEEE doubles the
\* comparison also succeeds when the two sides are equal: 1.08 - 1 evaluates
\* to 0.08000000000000007, which is greater than the double 0.08 (likewise
\* 1.04 and 1.01), so the boundary itself passes the test.
CagrExceeds(latest, older, num_years, pct) ==
    latest * Pow(100, num_years) >= older * Pow(100 + pct, num_years)

\* 1. Revenue Growth (annualized CAGR)
RevenueGrowth(financial_line_items) ==
    LET revenues == Values(financial_line_items, "revenue") IN
    IF Len(revenues) >= 2 THEN
        LET latest_rev == revenues[1]
            older_rev == revenues[Len(revenues)]
            num_years == Len(revenues) - 1
        IN  IF IsNumber(latest_rev) /\ IsNumber(older_rev) THEN
                IF older_rev > 0 /\ latest_rev > 0 THEN
                    IF older_rev = 0 THEN Raise("ZeroDivisionError")
                    ELSE IF CagrExceeds(latest_rev, older_rev, num_years, 8)
                    THEN Sub(3, "Strong annualized revenue growth: {rev_growth:.1%}")
                    ELSE IF CagrExceeds(latest_rev, older_rev, num_years, 4)
                    THEN Sub(2, "Moderate annualized revenue growth: {rev_growth:.1%}")
                    ELSE IF CagrExceeds(latest_rev, older_rev, num_years, 1)
                    THEN Sub(1, "Slight annualized revenue growth: {rev_growth:.1%}")
                    ELSE Sub(0, "Minimal/negative revenue growth: {rev_growth:.1%}")
                ELSE Sub(0, "Older revenue is zero/negative; can't compute revenue growth.")
            ELSE Sub(0, "Invalid revenue data types.")
    ELSE Sub(0, "Not enough revenue data points for growth calculation.")

\* 2. EPS Growth (annualized CAGR)
EpsGrowth(financial_line_items) ==
    LET eps_values == Values(financial_line_items, "earnings_per_share") IN
    IF Len(eps_values) >= 2 THEN
        LET latest_eps == eps_values[1]
            older_eps == eps_values[Len(eps_values)]
            num_years == Len(eps_values) - 1
        IN  IF IsNumber(latest_eps) /\ IsNumber(older_eps) THEN
                IF older_eps > 0 /\ latest_eps > 0 THEN
                    IF older_eps = 0 THEN Raise("ZeroDivisionError")
                    ELSE IF CagrExceeds(latest_eps, older_eps, num_years, 8)
                    THEN Sub(3, "Strong annualized EPS growth: {eps_growth:.1%}")
                    ELSE IF CagrExceeds(latest_eps, older_eps, num_years, 4)
                    THEN Sub(2, "Moderate annualized EPS growth: {eps_growth:.1%}")
                    ELSE IF CagrExceeds(latest_eps, older_eps, num_years, 1)
                    THEN Sub(1, "Slight annualized EPS growth: {eps_growth:.1%}")
                    ELSE Sub(0, "Minimal/negative annualized EPS growth: {eps_growth:.1%}")
                ELSE Sub(0, "Older EPS is near zero; skipping EPS growth calculation.")
            ELSE Sub(0, "Invalid EPS data types.")
    ELSE Sub(0, "Not enough EPS data points for growth calculation.")

\* len(prices) > 30
MomentumMinPrices == 30

\* A momentum sub-scale that takes a list of exactly 30 points too.
PriceMomentumFromThirty(prices) ==
    IF Len(prices) # 0 /\ Len(prices) >= MomentumMinPrices THEN
        LET close_prices == Values(prices, "close") IN
        IF Len(close_prices) >= 2 THEN
            LET start_price == close_prices[1]
                end_price == close_prices[Len(close_prices)]
            IN  IF ~IsNumber(start_price) THEN Raise("TypeError")
                ELSE IF start_price > 0 THEN
                    IF ~IsNumber(end_price) THEN Raise("TypeError")
                    ELSE IF end_price = NaN
                    THEN Sub(0, "Negative price momentum: {pct_change:.1%}")
                    ELSE IF (end_price - start_price) * 100 > 50 * start_price
                    THEN Sub(3, "Very strong price momentum: {pct_change:.1%}")
                    ELSE IF (end_price - start_price) * 100 > 20 * start_price
                    THEN Sub(2, "Moderate price momentum: {pct_change:.1%}")
                    ELSE IF end_price - start_price > 0
                    THEN Sub(1, "Slight positive momentum: {pct_change:.1%}")
                    ELSE Sub(0, "Negative price momentum: {pct_change:.1%}")
                ELSE Sub(0, "Invalid start price (<= 0); can't compute momentum.")
        ELSE Sub(0, "Insufficient price data for momentum calculation.")
    ELSE Sub(0, "Not enough recent price data for momentum analysis.")

\* 3. Price Momentum: pct_change = (end_price - start_price) / start_price
\* against 0.50, 0.20 and 0, compared exactly.
PriceMomentum(prices) ==
    IF Len(prices) # 0 /\ Len(prices) > MomentumMinPrices THEN
        LET close_prices == Values(prices, "close") IN
        IF Len(close_prices) >= 2 THEN
            LET start_price == close_prices[1]
                end_price == close_prices[Len(close_prices)]
            IN  IF ~IsNumber(start_price) THEN Raise("TypeError")
                ELSE IF start_price > 0 THEN
                    IF ~IsNumber(end_price) THEN Raise("TypeError")
                    ELSE IF end_price = NaN
                    THEN Sub(0, "Negative price momentum: {pct_change:.1%}")
                    ELSE IF (end_price - start_price) * 100 > 50 * start_price
                    THEN Sub(3, "Very strong price momentum: {pct_change:.1%}")
                    ELSE IF (end_price - start_price) * 100 > 20 * start_price
                    THEN Sub(2, "Moderate price momentum: {pct_change:.1%}")
                    ELSE IF end_price - start_price > 0
                    THEN Sub(1, "Slight positive momentum: {pct_change:.1%}")
                    ELSE Sub(0, "Negative price momentum: {pct_change:.1%}")
                ELSE Sub(0, "Invalid start price (<= 0); can't compute momentum.")
        ELSE Sub(0, "Insufficient price data for momentum calculation.")
    ELSE Sub(0, "Not enough recent price data for momentum analysis.")

analyze_growth_and_momentum(financial_line_items, prices) ==
    IF Len(financial_line_items) = 0 \/ Len(financial_line_items) < 2
    THEN Result(0, "Insufficient financial data for growth analysis")
    ELSE Finish(<<RevenueGrowth(financial_line_items),
                  EpsGrowth(financial_line_items),
                  PriceMomentum(prices)>>, 9)

(***************************************************************************)
(* Exact rationals n/d with d > 0, in lowest terms.                        *)
(***************************************************************************)

Rat(n, d) ==
    LET g == Gcd(n, d)
        s == IF d < 0 THEN -1 ELSE 1
    IN  [n |-> s * (n \div g), d |-> s * (d \div g)]

RAdd(x, y) ==
    LET l == (x.d \div Gcd(x.d, y.d)) * y.d
    IN  Rat(x.n * (l \div x.d) + y.n * (l \div y.d), l)

RNeg(x) == [n |-> -x.n, d |-> x.d]

RMul(x, y) ==
    LET a == Rat(x.n, y.d)
        b == Rat(y.n, x.d)
    IN  [n |-> a.n * b.n, d |-> a.d * b.d]

\* The sum of xs[lo..hi], halving the range.
RECURSIVE RSumRange(_, _, _)
RSumRange(xs, lo, hi) ==
    IF lo > hi THEN Rat(0, 1)
    ELSE IF lo = hi THEN xs[lo]
    ELSE LET mid == (lo + hi) \div 2
         IN  RAdd(RSumRange(xs, lo, mid), RSumRange(xs, mid + 1, hi))

RSum(xs) == RSumRange(xs, 1, Len(xs))

\* fp/fq < fa/fb for fp, fa >= 0 and fq, fb > 0, by comparing integer parts and then
\* the reciprocals of the fractional parts: no product is formed.
RECURSIVE FracLess(_, _, _, _)
FracLess(fp, fq, fa, fb) ==
    IF fp \div fq # fa \div fb THEN fp \div fq < fa \div fb
    ELSE IF fa % fb = 0 THEN FALSE
    ELSE IF fp % fq = 0 THEN TRUE
    ELSE FracLess(fb, fa % fb, fq, fp % fq)

(***************************************************************************)
(* analyze_risk_reward                                                     *)
(***************************************************************************)

\* The most recent equity taken as it is, without the 1e-9 stand-in for zero.
RecentEquityAsIs(equity0) == [n |-> equity0, d |-> 1]

\* 1e-9, as the reciprocal: 1 / EquityEpsilonInv.
EquityEpsilonInv == 1000000000

\* equity_values[0] if equity_values[0] else 1e-9, as a rational.
RecentEquity(equity0) ==
    IF equity0 # 0 THEN [n |-> equity0, d |-> 1]
    ELSE [n |-> 1, d |-> EquityEpsilonInv]

\* Upper bounds that include the bound: de_ratio <= a / b.
RatioAtMost(recent_debt, eq, a, b) ==
    IF eq.n > 0 THEN recent_debt * b <= (a * eq.n) \div eq.d
    ELSE recent_debt * b >= -(((-a) * eq.n) \div eq.d)

\* The bound applied to the magnitude of the ratio: a negative equity counts
\* as the positive equity of the same size.
RatioBelowInMagnitude(recent_debt, eq, a, b) ==
    IF eq.n > 0 THEN recent_debt * b <= (a * eq.n - 1) \div eq.d
    ELSE recent_debt * b <= (a * (-eq.n) - 1) \div eq.d

\* de_ratio < a / b, where de_ratio = recent_debt / recent_equity and
\* recent_equity = eq.n / eq.d is not zero.  For eq.n > 0 this is
\* recent_debt * b * eq.d < a * eq.n, for eq.n < 0 the reverse; the product
\* with eq.d is replaced by a floor division of the other side.
RatioBelow(recent_debt, eq, a, b) ==
    IF eq.n > 0 THEN recent_debt * b <= (a * eq.n - 1) \div eq.d
    ELSE recent_debt * b >= ((a * eq.n) \div eq.d) + 1

\* 1. Debt-to-Equity
Leverage(financial_line_items) ==
    LET debt_values == Values(financial_line_items, "total_debt")
        equity_values == Values(financial_line_items, "shareholders_equity")
    IN  IF /\ Len(debt_values) # 0
           /\ Len(equity_values) # 0
           /\ Len(debt_values) = Len(equity_values)
           /\ Len(debt_values) > 0
        THEN
            LET recent_debt == debt_values[1]
                recent_equity == RecentEquity(equity_values[1])
            IN  IF ~IsNumber(recent_debt) \/ ~IsNumber(equity_values[1])
                THEN Raise("TypeError")
                ELSE IF recent_equity.n = 0 THEN Raise("ZeroDivisionError")
                ELSE IF RatioBelow(recent_debt, recent_equity, 3, 10)
                THEN Sub(3, "Low debt-to-equity: {de_ratio:.2f}")
                ELSE IF RatioBelow(recent_debt, recent_equity, 7, 10)
                THEN Sub(2, "Moderate debt-to-equity: {de_ratio:.2f}")
                ELSE IF RatioBelow(recent_debt, recent_equity, 15, 10)
                THEN Sub(1, "Somewhat high debt-to-equity: {de_ratio:.2f}")
                ELSE Sub(0, "High debt-to-equity: {de_ratio:.2f}")
        ELSE Sub(0, "No consistent debt/equity data available.")

\* len(prices) > 10 and len(close_prices) > 10
VolatilityMinPrices == 10

\* The loop over range(1, len(close_prices)): the simple return of every
\* pair whose previous close is positive, in order.
RECURSIVE ReturnsRange(_, _, _)
ReturnsRange(close_prices, lo, hi) ==
    IF lo > hi THEN << >>
    ELSE IF lo = hi
    THEN IF close_prices[lo - 1] > 0
         THEN <<Rat(close_prices[lo] - close_prices[lo - 1], close_prices[lo - 1])>>
         ELSE << >>
    ELSE ReturnsRange(close_prices, lo, (lo + hi) \div 2)
             \o ReturnsRange(close_prices, ((lo + hi) \div 2) + 1, hi)

DailyReturns(close_prices) == ReturnsRange(close_prices, 2, Len(close_prices))

\* The loop raises TypeError at the first pair whose previous close is not a
\* number, or whose previous close is positive and whose close is not a number.
ReturnsRaise(close_prices) ==
    \E i \in 1..(Len(close_prices) - 1) :
        \/ ~IsNumber(close_prices[i])
        \/ close_prices[i] > 0 /\ ~IsNumber(close_prices[i + 1])

\* A NaN close after a positive close puts a NaN among the daily returns:
\* statistics.pstdev then raises AttributeError (a float NaN has no numerator).
ReturnsNaN(close_prices) ==
    \E i \in 1..(Len(close_prices) - 1) :
        close_prices[i] > 0 /\ close_prices[i + 1] = NaN

\* The population variance of a non-empty sequence of rationals:
\* sum(x^2)/N - (sum(x)/N)^2.
PVariance(xs) ==
    LET N == Len(xs)
        s1 == RSum(xs)
        s2 == RSum([i \in 1..N |-> RMul(xs[i], xs[i])])
    IN  RAdd(RMul(s2, Rat(1, N)), RNeg(RMul(RMul(s1, s1), Rat(1, N * N))))

\* statistics.pstdev(daily_returns) < a / b, for a, b > 0: the variance is
\* below (a/b)^2.  pstdev takes the correctly rounded square root of the
\* exact variance, so a variance of exactly (a/b)^2 gives exactly a/b.
PstdevBelow(daily_returns, a, b) ==
    LET v == PVariance(daily_returns)
    IN  FracLess(v.n, v.d, a * a, b * b)

\* A volatility sub-scale that takes 10 price points too.
VolatilityFromTen(prices) ==
    IF Len(prices) >= VolatilityMinPrices THEN
        LET close_prices == Values(prices, "close") IN
        IF Len(close_prices) >= VolatilityMinPrices THEN
            LET daily_returns == DailyReturns(close_prices) IN
            IF ReturnsRaise(close_prices) THEN Raise("TypeError")
            ELSE IF ReturnsNaN(close_prices) THEN Raise("AttributeError")
            ELSE IF Len(daily_returns) # 0 THEN
                IF PstdevBelow(daily_returns, 1, 100)
                THEN Sub(3, "Low volatility: daily returns stdev {stdev:.2%}")
                ELSE IF PstdevBelow(daily_returns, 2, 100)
                THEN Sub(2, "Moderate volatility: daily returns stdev {stdev:.2%}")
                ELSE IF PstdevBelow(daily_returns, 4, 100)
                THEN Sub(1, "High volatility: daily returns stdev {stdev:.2%}")
                ELSE Sub(0, "Very high volatility: daily returns stdev {stdev:.2%}")
            ELSE Sub(0, "Insufficient daily returns data for volatility calc.")
        ELSE Sub(0, "Not enough close-price data points for volatility analysis.")
    ELSE Sub(0, "Not enough price data for volatility analysis.")

\* 2. Price Volatility
Volatility(prices) ==
    IF Len(prices) > VolatilityMinPrices THEN
        LET close_prices == Values(prices, "close") IN
        IF Len(close_prices) > VolatilityMinPrices THEN
            LET daily_returns == DailyReturns(close_prices) IN
            IF ReturnsRaise(close_prices) THEN Raise("TypeError")
            ELSE IF ReturnsNaN(close_prices) THEN Raise("AttributeError")
            ELSE IF Len(daily_returns) # 0 THEN
                IF PstdevBelow(daily_returns, 1, 100)
                THEN Sub(3, "Low volatility: daily returns stdev {stdev:.2%}")
                ELSE IF PstdevBelow(daily_returns, 2, 100)
                THEN Sub(2, "Moderate volatility: daily returns stdev {stdev:.2%}")
                ELSE IF PstdevBelow(daily_returns, 4, 100)
                THEN Sub(1, "High volatility: daily returns stdev {stdev:.2%}")
                ELSE Sub(0, "Very high volatility: daily returns stdev {stdev:.2%}")
            ELSE Sub(0, "Insufficient daily returns data for volatility calc.")
        ELSE Sub(0, "Not enough close-price data points for volatility analysis.")
    ELSE Sub(0, "Not enough price data for volatility analysis.")

analyze_risk_reward(financial_line_items, prices) ==
    IF Len(financial_line_items) = 0 \/ Len(prices) = 0
    THEN Result(0, "Insufficient data for risk-reward analysis")
    ELSE Finish(<<Leverage(financial_line_items), Volatility(prices)>>, 6)

(***************************************************************************)
(* analyze_valuation                                                       *)
(***************************************************************************)

\* values[0] if values else None
First(values) == IF Len(values) # 0 THEN <<values[1]>> ELSE None

\* values[0] if values else 0
FirstOrZero(values) == IF Len(values) # 0 THEN values[1] ELSE 0

\* enterprise_value = market_cap + recent_debt - recent_cash
EnterpriseValue(financial_line_items, market_cap) ==
    market_cap + FirstOrZero(Values(financial_line_items, "total_debt"))
               - FirstOrZero(Values(financial_line_items, "cash_and_equivalents"))

\* A guard that only asks for the value to be present.
Present(x) == x # None

\* `x and x > 0` for an optional number: present, not zero, positive.
Positive(x) == x # None /\ x[1] # 0 /\ x[1] > 0

\* `x and x > 0` raises TypeError for a str: it is truthy and not ordered
\* against 0.
IsText(x) == x # None /\ ~IsNumber(x[1])

\* market_cap + recent_debt - recent_cash raises TypeError when any of the
\* three is a str (str + str concatenates, the subtraction then fails).
EnterpriseValueRaises(financial_line_items, market_cap) ==
    \/ ~IsNumber(market_cap)
    \/ ~IsNumber(FirstOrZero(Values(financial_line_items, "total_debt")))
    \/ ~IsNumber(FirstOrZero(Values(financial_line_items, "cash_and_equivalents")))

\* 1) P/E
PriceEarnings(financial_line_items, market_cap) ==
    LET recent_net_income == First(Values(financial_line_items, "net_income")) IN
    IF IsText(recent_net_income) THEN Raise("TypeError")
    ELSE IF Positive(recent_net_income) THEN
        IF recent_net_income[1] = 0 THEN Raise("ZeroDivisionError")
        ELSE IF market_cap < 15 * recent_net_income[1]
        THEN Sub(2, "Attractive P/E: {pe:.2f}")
        ELSE IF market_cap < 25 * recent_net_income[1]
        THEN Sub(1, "Fair P/E: {pe:.2f}")
        ELSE Sub(0, "High or Very high P/E: {pe:.2f}")
    ELSE Sub(0, "No positive net income for P/E calculation")

\* 2) P/FCF
PriceFreeCashFlow(financial_line_items, market_cap) ==
    LET recent_fcf == First(Values(financial_line_items, "free_cash_flow")) IN
    IF IsText(recent_fcf) THEN Raise("TypeError")
    ELSE IF Positive(recent_fcf) THEN
        IF recent_fcf[1] = 0 THEN Raise("ZeroDivisionError")
        ELSE IF market_cap < 15 * recent_fcf[1]
        THEN Sub(2, "Attractive P/FCF: {pfcf:.2f}")
        ELSE IF market_cap < 25 * recent_fcf[1]
        THEN Sub(1, "Fair P/FCF: {pfcf:.2f}")
        ELSE Sub(0, "High/Very high P/FCF: {pfcf:.2f}")
    ELSE Sub(0, "No positive free cash flow for P/FCF calculation")

\* 3) EV/EBIT
EvEbit(financial_line_items, market_cap) ==
    LET enterprise_value == EnterpriseValue(financial_line_items, market_cap)
        recent_ebit == First(Values(financial_line_items, "ebit"))
    IN  IF enterprise_value > 0 /\ IsText(recent_ebit) THEN Raise("TypeError")
        ELSE IF enterprise_value > 0 /\ Positive(recent_ebit) THEN
            IF recent_ebit[1] = 0 THEN Raise("ZeroDivisionError")
            ELSE IF enterprise_value < 15 * recent_ebit[1]
            THEN Sub(2, "Attractive EV/EBIT: {ev_ebit:.2f}")
            ELSE IF enterprise_value < 25 * recent_ebit[1]
            THEN Sub(1, "Fair EV/EBIT: {ev_ebit:.2f}")
            ELSE Sub(0, "High EV/EBIT: {ev_ebit:.2f}")
        ELSE Sub(0, "No valid EV/EBIT because EV <= 0 or EBIT <= 0")

\* 4) EV/EBITDA
EvEbitda(financial_line_items, market_cap) ==
    LET enterprise_value == EnterpriseValue(financial_line_items, market_cap)
        recent_ebitda == First(Values(financial_line_items, "ebitda"))
    IN  IF enterprise_value > 0 /\ IsText(recent_ebitda) THEN Raise("TypeError")
        ELSE IF enterprise_value > 0 /\ Positive(recent_ebitda) THEN
            IF recent_ebitda[1] = 0 THEN Raise("ZeroDivisionError")
            ELSE IF enterprise_value < 10 * recent_ebitda[1]
            THEN Sub(2, "Attractive EV/EBITDA: {ev_ebitda:.2f}")
            ELSE IF enterprise_value < 18 * recent_ebitda[1]
            THEN Sub(1, "Fair EV/EBITDA: {ev_ebitda:.2f}")
            ELSE Sub(0, "High EV/EBITDA: {ev_ebitda:.2f}")
        ELSE Sub(0, "No valid EV/EBITDA because EV <= 0 or EBITDA <= 0")

\* A valuation whose precondition is `not market_cap`: a market cap of 0 is
\* taken for an absent one.
ValuationWithoutZeroCap(financial_line_items, market_cap) ==
    IF Len(financial_line_items) = 0 \/ market_cap = None \/ market_cap = <<0>>
    THEN Result(0, "Insufficient data to perform valuation")
    ELSE Finish(<<PriceEarnings(financial_line_items, market_cap[1]),
                  PriceFreeCashFlow(financial_line_items, market_cap[1]),
                  EvEbit(financial_line_items, market_cap[1]),
                  EvEbitda(financial_line_items, market_cap[1])>>, 8)

\* market_cap is an optional number: None, or <<cap>>.
analyze_valuation(financial_line_items, market_cap) ==
    IF Len(financial_line_items) = 0 \/ market_cap = None
    THEN Result(0, "Insufficient data to perform valuation")
    ELSE IF EnterpriseValueRaises(financial_line_items, market_cap[1])
    THEN Raised("TypeError")
    ELSE Finish(<<PriceEarnings(financial_line_items, market_cap[1]),
                  PriceFreeCashFlow(financial_line_items, market_cap[1]),
                  EvEbit(financial_line_items, market_cap[1]),
                  EvEbitda(financial_line_items, market_cap[1])>>, 8)

(***************************************************************************)
(* The composite of stanley_druckenmiller_agent (one pass of its loop)     *)
(***************************************************************************)

\* total_score = growth.get("score", 0) + risk.get("score", 0)
\*             + valuation.get("score", 0), in hundredths.
TotalScore(growth, risk, valuation) ==
    growth.score + risk.score + valuation.score

\* max_possible_score = 30
max_possible_score == 30

\* The bands of a 20-point composite: 14, 10 and 6.
SignalOfTwenty(total_score) ==
    IF total_score >= 1400 THEN "Strong Buy"
    ELSE IF total_score >= 1000 THEN "Buy"
    ELSE IF total_score >= 600 THEN "Hold"
    ELSE "Sell"

\* The bands with strict comparisons: a total on a cut point falls into the
\* band below.
SignalAbove(total_score) ==
    IF total_score > 2200 THEN "Strong Buy"
    ELSE IF total_score > 1600 THEN "Buy"
    ELSE IF total_score > 1000 THEN "Hold"
    ELSE "Sell"

\* The if/elif chain on total_score (hundredths): 22, 16 and 10.  The float
\* sum of three sub-scores compares with 22, 16 and 10 as the exact sum does,
\* for every combination of sub-scores the scorers can return.
Signal(total_score) ==
    IF total_score >= 2200 THEN "Strong Buy"
    ELSE IF total_score >= 1600 THEN "Buy"
    ELSE IF total_score >= 1000 THEN "Hold"
    ELSE "Sell"

\* A total cut to one decimal instead of rounded.
RoundTenthsDown(total_score) == total_score \div 10

\* float(f"{total_score:.1f}"), in tenths, of a total given in hundredths.
\* A total that is not halfway between two tenths rounds to the nearest.  A
\* halfway total is rounded as its double is: the sums ending in .25 and .75
\* are exact doubles and round half to even, the others lie just above or
\* just below the decimal halfway point: .05 and .55 round up, .45 and .95
\* round down (the only halfway totals the sub-scores can sum to).
RoundTenths(total_score) ==
    LET q == total_score \div 10
        r == total_score % 10
        up == IF r > 5 THEN TRUE
              ELSE IF r < 5 THEN FALSE
              ELSE IF total_score % 100 \in {25, 75} THEN q % 2 = 1
              ELSE total_score % 100 \in {5, 55}
    IN  IF up THEN q + 1 ELSE q

\* analysis_data[ticker], lines 71-80.
Report(growth, risk, valuation) ==
    [signal |-> Signal(TotalScore(growth, risk, valuation)),
     score |-> RoundTenths(TotalScore(growth, risk, valuation)),
     max_score |-> max_possible_score,
     growth_momentum_analysis |-> <<growth>>,
     sentiment_analysis |-> None,
     insider_activity |-> None,
     risk_reward_analysis |-> <<risk>>,
     valuation_analysis |-> <<valuation>>]

(***************************************************************************)
(* yf_search_line_items: the line-item normalizer                          *)
(*                                                                         *)
(* A statement table (a pandas DataFrame as yfinance delivers it) has the  *)
(* line-item labels as its index and the period-end dates as its columns:  *)
(* [columns |-> sequence of dates, rows |-> label :> sequence of cells],   *)
(* a cell being an optional number (None for NaN).  A date is the integer  *)
(* yyyymm.  A table that could not be loaded is None.                      *)
(***************************************************************************)

\* DataFrame.empty: no rows or no columns.
IsEmptyFrame(frame) == DOMAIN frame.rows = {} \/ Len(frame.columns) = 0

\* The cell of a table at (label, date); NaN where the table has no such
\* column, as pd.concat aligns the tables by column.
Cell(frame, label, date) ==
    IF \E i \in 1..Len(frame.columns) : frame.columns[i] = date
    THEN frame.rows[label][CHOOSE i \in 1..Len(frame.columns) :
                               frame.columns[i] = date]
    ELSE None

\* combined = pd.concat(frames); combined.loc[~index.duplicated(keep="first")]:
\* a label's row is the row of the first table, in order, that has the label.
CombinedLabels(frames) == UNION {DOMAIN frames[i].rows : i \in 1..Len(frames)}

CombinedDates(frames) ==
    UNION {{frames[i].columns[j] : j \in 1..Len(frames[i].columns)} :
           i \in 1..Len(frames)}

CombinedCell(frames, label, date) ==
    LET owner == CHOOSE i \in 1..Len(frames) :
                     /\ label \in DOMAIN frames[i].rows
                     /\ \A j \in 1..(i - 1) : label \notin DOMAIN frames[j].rows
    IN  Cell(frames[owner], label, date)

\* A sort that puts the oldest date first.
RECURSIVE SortAscending(_)
SortAscending(dateset) ==
    IF dateset = {} THEN << >>
    ELSE LET oldest == CHOOSE x \in dateset : \A y \in dateset : x <= y
         IN  <<oldest>> \o SortAscending(dateset \ {oldest})

\* combined.T.sort_index(ascending=False): the dates, newest first.
RECURSIVE SortDescending(_)
SortDescending(dateset) ==
    IF dateset = {} THEN << >>
    ELSE LET newest == CHOOSE x \in dateset : \A y \in dateset : y <= x
         IN  <<newest>> \o SortDescending(dateset \ {newest})

\* DataFrame.head(limit): the first limit rows; all but the last -limit rows
\* for a negative limit.
head(rows, limit) ==
    LET keep == IF limit >= 0 THEN Min(limit, Len(rows))
                ELSE IF Len(rows) + limit > 0 THEN Len(rows) + limit ELSE 0
    IN  SubSeq(rows, 1, keep)

\* date_idx.year of a Timestamp.
Year(date_idx) == date_idx \div 100

\* shared.to_python: the Python number of a table cell.
to_python(val) == val

\* A lookup that stops at the first label the combined table has, whether
\* or not its cell is NaN.
GetValFirstLabel(frames, date_idx, keys) ==
    LET has(i) == keys[i] \in CombinedLabels(frames)
    IN  IF \E i \in 1..Len(keys) : has(i)
        THEN CombinedCell(frames,
                          keys[CHOOSE x \in 1..Len(keys) :
                                   has(x) /\ \A y \in 1..(x - 1) : ~has(y)],
                          date_idx)
        ELSE None

\* get_val(keys): the first label of keys that the combined table has with
\* a cell that is not NaN.
get_val(frames, date_idx, keys) ==
    LET hit(i) == /\ keys[i] \in CombinedLabels(frames)
                  /\ CombinedCell(frames, keys[i], date_idx) # None
    IN  IF \E i \in 1..Len(keys) : hit(i)
        THEN LET i == CHOOSE x \in 1..Len(keys) :
                          hit(x) /\ \A y \in 1..(x - 1) : ~hit(y)
             IN  <<to_python(CombinedCell(frames, keys[i], date_idx)[1])>>
        ELSE None

\* mapping: requested key -> yfinance index labels, in priority order.
mapping ==
    [revenue |-> <<"Total Revenue", "Operating Revenue">>,
     earnings_per_share |-> <<"Basic EPS", "Diluted EPS">>,
     net_income |-> <<"Net Income", "Net Income Common Stockholders">>,
     operating_income |-> <<"Operating Income">>,
     free_cash_flow |-> <<"Free Cash Flow">>,
     capital_expenditure |-> <<"Capital Expenditure">>,
     cash_and_equivalents |-> <<"Cash And Cash Equivalents">>,
     total_debt |-> <<"Total Debt">>,
     shareholders_equity |-> <<"Stockholders Equity",
                               "Total Equity Gross Minority Interest">>,
     outstanding_shares |-> <<"Share Issued", "Basic Average Shares">>,
     ebit |-> <<"EBIT">>,
     ebitda |-> <<"EBITDA">>,
     gross_margin |-> << >>,
     operating_margin |-> << >>,
     ev |-> << >>]

\* A fallback that sums the parts that are there, a missing one counting 0.
EbitFallbackPartial(frames, date_idx) ==
    LET part(keys) == IF get_val(frames, date_idx, keys) = None THEN 0
                      ELSE get_val(frames, date_idx, keys)[1]
    IN  <<part(<<"Net Income", "Net Income Common Stockholders">>)
              + part(<<"Interest Expense">>) + part(<<"Tax Provision">>)>>

\* Net Income + Interest Expense + Tax Provision, when all three are numbers.
EbitFallback(frames, date_idx) ==
    LET net_income == get_val(frames, date_idx,
                              <<"Net Income", "Net Income Common Stockholders">>)
        interest_expense == get_val(frames, date_idx, <<"Interest Expense">>)
        tax_provision == get_val(frames, date_idx, <<"Tax Provision">>)
    IN  IF net_income # None /\ interest_expense # None /\ tax_provision # None
        THEN <<net_income[1] + interest_expense[1] + tax_provision[1]>>
        ELSE None

\* A margin: numerator / total_revenue when both are numbers and the revenue
\* is not zero; the quotient is kept as a fraction in lowest terms.
Margin(numerator, total_revenue) ==
    IF numerator # None /\ total_revenue # None /\ total_revenue[1] # 0
    THEN <<Rat(numerator[1], total_revenue[1])>>
    ELSE None

\* The value one requested item gets in the record of one date (the body of
\* "for item in line_items"), None when the key is left out of the record.
ItemValue(frames, date_idx, item) ==
    LET total_revenue == get_val(frames, date_idx,
                                 <<"Total Revenue", "Operating Revenue">>)
        gross_profit == get_val(frames, date_idx, <<"Gross Profit">>)
        operating_income == get_val(frames, date_idx, <<"Operating Income">>)
        depreciation_amortization ==
            get_val(frames, date_idx,
                    <<"Reconciled Depreciation", "Depreciation And Amortization">>)
    IN  IF item \in DOMAIN mapping
        THEN LET val == get_val(frames, date_idx, mapping[item])
             IN  IF item = "gross_margin"
                 THEN Margin(gross_profit, total_revenue)
                 ELSE IF item = "operating_margin"
                 THEN Margin(operating_income, total_revenue)
                 ELSE IF item = "ebit"
                 THEN IF val = None THEN EbitFallback(frames, date_idx) ELSE val
                 ELSE IF item = "ebitda"
                 THEN IF val # None THEN val
                      ELSE LET direct == get_val(frames, date_idx, <<"EBIT">>)
                               ebit_val == IF direct = None
                                           THEN EbitFallback(frames, date_idx)
                                           ELSE direct
                           IN  IF ebit_val # None
                                  /\ depreciation_amortization # None
                               THEN <<ebit_val[1] + depreciation_amortization[1]>>
                               ELSE None
                 ELSE val
        ELSE get_val(frames, date_idx, <<item>>)

\* A record that keeps every requested item, with 0 for one without a value.
LineItemRecordPadded(frames, date_idx, line_items) ==
    LET requested == {line_items[i] : i \in 1..Len(line_items)}
    IN  [k \in {"period"} \cup requested |->
            IF k = "period" THEN Year(date_idx) ELSE 0]

\* record = {"period": year} plus every requested item that has a value (an
\* item named "period" that has a value replaces the year).
LineItemRecord(frames, date_idx, line_items) ==
    LET requested == {line_items[i] : i \in 1..Len(line_items)}
        present == {item \in requested : ItemValue(frames, date_idx, item) # None}
    IN  [k \in {"period"} \cup present |->
            IF k \in present THEN ItemValue(frames, date_idx, k)[1]
            ELSE Year(date_idx)]

\* The outcome of a data-layer call sequence: the records returned or the
\* exception raised, with the data-layer calls made, in order.
Returned(recs, made) == [raised |-> FALSE, exc |-> "", records |-> recs, calls |-> made]

Failed(exception, made) == [raised |-> TRUE, exc |-> exception, records |-> << >>, calls |-> made]

\* The calls of lines 266-271, in order.
StatementLoads ==
    <<"get_ticker", "load_statement_frame:income_stmt",
      "load_statement_frame:balance_sheet", "load_statement_frame:cashflow">>

\* A filter that keeps every table that was loaded, empty or not.
UsableNotNone(frame) == IF frame # None THEN <<frame[1]>> ELSE << >>

\* [f for f in [income, balance, cashflow] if f is not None and not f.empty],
\* one table at a time.
Usable(frame) ==
    IF frame # None /\ ~IsEmptyFrame(frame[1]) THEN <<frame[1]>> ELSE << >>

\* A normalizer that looks the ticker up and loads the statements before it
\* checks the period.
SearchLoadsFirst(held, line_items, period, limit) ==
    IF held.fault \in 1..Len(StatementLoads)
    THEN Failed("FetchError", SubSeq(StatementLoads, 1, held.fault))
    ELSE IF period # "annual" THEN Failed("ValueError", StatementLoads)
    ELSE Returned(<< >>, StatementLoads)

\* yf_search_line_items(ticker, line_items, period, limit) against what the
\* data layer holds for the ticker: held.income_stmt, .balance_sheet and
\* .cashflow are the tables load_statement_frame returns (an optional table),
\* held.fault is the number of the data-layer call that raises (0: none does).
yf_search_line_items(held, line_items, period, limit) ==
    IF period # "annual" THEN Failed("ValueError", << >>)
    ELSE IF held.fault \in 1..Len(StatementLoads)
    THEN Failed("FetchError", SubSeq(StatementLoads, 1, held.fault))
    ELSE LET frames == Usable(held.income_stmt) \o Usable(held.balance_sheet)
                           \o Usable(held.cashflow)
             dates == head(SortDescending(CombinedDates(frames)), limit)
         IN  IF Len(frames) = 0 THEN Returned(<< >>, StatementLoads)
             ELSE Returned([i \in 1..Len(dates) |->
                               LineItemRecord(frames, dates[i], line_items)],
                           StatementLoads)

(***************************************************************************)
(* yf_get_insider_trades (tools/yfinance/insider.py)                       *)
(*                                                                         *)
(* Dates are day numbers yyyymmdd.  A date cell of the transactions table  *)
(* is a Timestamp, NaT or a str.  transaction_date holds the isoformat()   *)
(* text of a Timestamp, which orders as the Timestamp does; it is kept as  *)
(* the optional day number, and the sort key "" of an undated record as 0. *)
(* Of a record's keys the model keeps ticker, name, transaction_date and   *)
(* filing_date; the others copy cells that no filter or ordering reads.    *)
(***************************************************************************)

Timestamp(day) == [kind |-> "Timestamp", at |-> day, text |-> ""]

NaT == [kind |-> "NaT", at |-> 0, text |-> ""]

Str(s) == [kind |-> "str", at |-> 0, text |-> s]

\* datetime.fromisoformat(text) and pd.to_datetime(text) on the date texts
\* in use: the day, or None where they raise.
fromisoformat(text) ==
    CASE text = "2024-03-01" -> <<20240301>>
      [] text = "2024-06-30" -> <<20240630>>
      [] text = "2024-07-01" -> <<20240701>>
      [] text = "2024-12-31" -> <<20241231>>
      [] OTHER -> None

\* str.upper(), on the tickers, providers and model types of the model; a
\* text already in upper case is returned as it is.
upper(ticker) ==
    CASE ticker = "msft" -> "MSFT"
      [] ticker = "d05.si" -> "D05.SI"
      [] ticker = "openai" -> "OPENAI"
      [] ticker = "anthropic" -> "ANTHROPIC"
      [] ticker = "google" -> "GOOGLE"
      [] ticker = "claude" -> "CLAUDE"
      [] ticker = "gemini" -> "GEMINI"
      [] ticker = "standard" -> "STANDARD"
      [] ticker = "strong" -> "STRONG"
      [] OTHER -> ticker

\* records.sort(..., reverse=True) left out: the records stay in row order.
TradesInRowOrder(records) == records

\* records.sort(key=lambda x: x.get("transaction_date", "") or "",
\* reverse=True): descending by key, records of equal key in their order.
SortTrades(records) ==
    LET key(i) == IF records[i].transaction_date = None THEN 0
                  ELSE records[i].transaction_date[1]
        rank(i) == Cardinality({j \in 1..Len(records) :
                                   \/ key(j) > key(i)
                                   \/ key(j) = key(i) /\ j < i}) + 1
    IN  [k \in 1..Len(records) |->
            records[CHOOSE i \in 1..Len(records) : rank(i) = k]]

\* yf_get_insider_trades(ticker, end_date, start_date, limit), given what
\* ticker_obj.insider_transactions yields (trades_df.fault: the property
\* raises; trades_df.frame: None or <<table>>, a table having columns, a
\* datetime_index flag and rows) and the value of datetime.now().
yf_get_insider_trades(trades_df, ticker, end_date, start_date, limit, now) ==
    IF trades_df.fault THEN << >>
    ELSE IF trades_df.frame = None THEN << >>
    ELSE IF Len(trades_df.frame[1].rows) = 0 THEN << >>
    ELSE
        LET table == trades_df.frame[1]
            date_col ==
                IF "Start Date" \in table.columns THEN <<"Start Date">>
                ELSE IF "Date" \in table.columns THEN <<"Date">>
                ELSE IF table.datetime_index THEN <<"index">>
                ELSE None
            parsed == /\ fromisoformat(end_date) # None
                      /\ (start_date = None \/ start_date = <<"">>
                          \/ fromisoformat(start_date[1]) # None)
            end_dt == IF parsed THEN fromisoformat(end_date)[1] ELSE now
            start_dt == IF parsed /\ start_date # None /\ start_date # <<"">>
                        THEN fromisoformat(start_date[1]) ELSE None
            trade_date(row) ==
                IF date_col = None THEN None
                ELSE IF row[date_col[1]].kind = "NaT" THEN None
                ELSE IF row[date_col[1]].kind = "Timestamp"
                THEN <<row[date_col[1]].at>>
                ELSE fromisoformat(row[date_col[1]].text)
            kept(row) ==
                \/ trade_date(row) = None
                \/ /\ ~(trade_date(row)[1] > end_dt)
                   /\ ~(start_dt # None /\ trade_date(row)[1] < start_dt[1])
            record(row) ==
                [ticker |-> upper(ticker),
                 name |-> row["Insider"],
                 transaction_date |-> trade_date(row),
                 filing_date |-> trade_date(row)]
            selected == SelectSeq(table.rows, kept)
            records == [i \in 1..Len(selected) |-> record(selected[i])]
        IN  head(SortTrades(records), limit)

(***************************************************************************)
(* State                                                                   *)
(***************************************************************************)

VARIABLES
    \* stanley_druckenmiller_agent(tickers): the argument, the number of loop
    \* iterations completed, the mapping being built, the last snapshot
    \* response, and how the call stands ("running", "returned", "raised").
    tickers, idx, analysis_data, snapshot_data, outcome,
    \* A caller of the scorers: the argument objects it holds per ticker, the
    \* arguments as it built them, the calls it has yet to make and the
    \* results it got, in order.
    held_items, held_prices, held_market_cap, given, pending, returned,
    \* A call of yf_search_line_items: the statements the data layer holds,
    \* the arguments of the call and its outcome, None before the call.
    statements, request, response,
    \* A call of yf_get_insider_trades: what the ticker's
    \* insider_transactions property yields, the arguments of the call and
    \* the list it returned, None before the call.
    insider_transactions, insider_call, insider_trades,
    \* A call of call_llm or call_llm_stream: the environment variables that
    \* are set, the arguments of the call (None before it), the chat model
    \* built, the loop variable attempt, the chain invocations made, the
    \* exceptions the chain has raised, the sleeps taken (in milliseconds),
    \* the chunks read from the current stream, the contents yielded to the
    \* consumer, and how the call stands: "idle", "invoking", "streaming",
    \* "returned", or the name of the exception that left it.
    llm_env, llm_call, llm_client, llm_attempt, llm_invocations, llm_errors,
    llm_slept, llm_cursor, llm_yielded, llm_outcome,
    \* The Tavily tools: the value of TAVILY_API_KEY (None when unset), the
    \* module global _tavily_tool (None, or <<n>> for the n-th TavilySearch
    \* constructed), the number constructed, and the outcome of each tool
    \* call made, in order.
    tavily_key, tavily_tool, tavily_built, tavily_calls,
    \* cli.main: the local current_model_provider, the persisted "model"
    \* setting, the provider the agent in use was constructed with, the
    \* inputs processed so far with what became of each, and where main is.
    current_model_provider, setting, agent, processed, cli_at

agentVars == <<tickers, idx, analysis_data, snapshot_data, outcome>>

scorerVars == <<held_items, held_prices, held_market_cap, given, pending, returned>>

lineItemVars == <<statements, request, response>>

insiderVars == <<insider_transactions, insider_call, insider_trades>>

llmVars == <<llm_env, llm_call, llm_client, llm_attempt, llm_invocations,
             llm_errors, llm_slept, llm_cursor, llm_yielded, llm_outcome>>

tavilyVars == <<tavily_key, tavily_tool, tavily_built, tavily_calls>>

cliVars == <<current_model_provider, setting, agent, processed, cli_at>>

vars == <<agentVars, scorerVars, lineItemVars, insiderVars, llmVars,
          tavilyVars, cliVars>>

\* The tickers of the integration test.
Tickers == {"QCOM", "D05.SI"}

\* The set of optional values over a set.
Opt(S) == {None} \cup {<<v>> : v \in S}

AgentIdle ==
    /\ tickers = << >>
    /\ idx = 0
    /\ analysis_data = << >>
    /\ snapshot_data = None
    /\ outcome = "idle"

ScorersIdle ==
    /\ held_items = [t \in Tickers |-> << >>]
    /\ held_prices = [t \in Tickers |-> << >>]
    /\ held_market_cap = [t \in Tickers |-> None]
    /\ given = [financial_line_items |-> held_items,
                prices |-> held_prices, market_cap |-> held_market_cap]
    /\ pending = << >>
    /\ returned = << >>

LineItemsIdle ==
    /\ statements = [income_stmt |-> None, balance_sheet |-> None,
                     cashflow |-> None, fault |-> 0]
    /\ request = None
    /\ response = None

InsiderIdle ==
    /\ insider_transactions = [fault |-> FALSE, frame |-> None]
    /\ insider_call = None
    /\ insider_trades = None

LlmIdle ==
    /\ llm_env = {}
    /\ llm_call = None
    /\ llm_client = None
    /\ llm_attempt = 0
    /\ llm_invocations = 0
    /\ llm_errors = << >>
    /\ llm_slept = << >>
    /\ llm_cursor = 0
    /\ llm_yielded = << >>
    /\ llm_outcome = "idle"

TavilyIdle ==
    /\ tavily_key = None
    /\ tavily_tool = None
    /\ tavily_built = 0
    /\ tavily_calls = << >>

CliIdle ==
    /\ current_model_provider = None
    /\ setting = None
    /\ agent = None
    /\ processed = << >>
    /\ cli_at = "idle"

\* No tool outside the yfinance analysis is in use.
ToolsIdle == LlmIdle /\ TavilyIdle /\ CliIdle

(***************************************************************************)
(* Calls of the scorers                                                    *)
(***************************************************************************)

\* The longest list of annual records and the most calls a caller makes.
MaxRecords == 3

MaxCalls == 3

\* How far past the momentum and volatility minimums a price list goes.
PriceSlack == 2

\* Lists of up to MaxRecords records: a newest record, equal records in the
\* middle and an oldest record.
RecordLists(firsts, mids, lasts) ==
    {<< >>} \cup {<<f>> : f \in firsts}
    \cup UNION {{<<f>> \o [i \in 1..(n - 2) |-> m] \o <<l>> :
                    f \in firsts, m \in mids, l \in lasts} : n \in 2..MaxRecords}

\* Price lists of n bars: a first close, equal closes in the middle and a
\* last close; a bar whose close is None has no close.
PriceList(n, a, b, c) ==
    [i \in 1..n |-> MkDict([close |-> IF i = 1 THEN a ELSE IF i = n THEN c ELSE b])]

PriceLengths ==
    {0, 1, 2} \cup {VolatilityMinPrices + k : k \in 0..PriceSlack}
              \cup {MomentumMinPrices + k : k \in 0..PriceSlack}

CloseValues == {-10, 0, 10, 11, 12, 15, 16, 30, 31}

PriceLists ==
    {PriceList(n, a, b, c) : n \in PriceLengths,
                             a \in Opt(CloseValues), b \in Opt(CloseValues),
                             c \in Opt(CloseValues)}

\* Records for the revenue and EPS sub-scales (100 -> 101, 104, 108 sit on the
\* 1%, 4% and 8% thresholds after one year).
GrowthRecords ==
    {MkDict([revenue |-> r, earnings_per_share |-> e]) :
        r \in Opt({-100, 0, 100, 101, 104, 108, 115}), e \in Opt({0, 50, 54})}

GrowthFillers == {<< >>, [revenue |-> 100, earnings_per_share |-> 50]}

\* Records for the leverage sub-scale (debt 30 and 100 of equity sit on the
\* 0.3 threshold).
RiskRecords ==
    {MkDict([total_debt |-> d, shareholders_equity |-> e]) :
        d \in Opt({-10, 0, 29, 30, 70, 150}), e \in Opt({-100, 0, 100})}

RiskFillers == {<< >>, [total_debt |-> 70]}

RiskOldest == RiskFillers \cup {[total_debt |-> 150, shareholders_equity |-> 100]}

\* Records for the four valuation multiples.
ValuationRecords ==
    {MkDict([net_income |-> ni, free_cash_flow |-> fcf, ebit |-> eb,
             ebitda |-> ebd, total_debt |-> d, cash_and_equivalents |-> c]) :
        ni \in Opt({0, 100}), fcf \in Opt({-100, 100}), eb \in Opt({0, 100}),
        ebd \in Opt({-100, 100}), d \in Opt({500}), c \in Opt({1000})}

ValuationFillers ==
    {<< >>, [net_income |-> 50, free_cash_flow |-> 50, ebit |-> 50,
             ebitda |-> 50, total_debt |-> 100, cash_and_equivalents |-> 100]}

MarketCaps == Opt({-1000, 0, 1000, 1499, 1500, 2300, 2499, 2500})

\* A short and a long plain price history.
PlainPrices ==
    {PriceList(1, <<10>>, <<10>>, <<10>>),
     PriceList(MomentumMinPrices + 1, <<10>>, <<11>>, <<16>>)}

PlainRecords ==
    {<<[revenue |-> 115, earnings_per_share |-> 54, total_debt |-> 30,
        shareholders_equity |-> 100],
       [revenue |-> 100, earnings_per_share |-> 50, total_debt |-> 70,
        shareholders_equity |-> 100]>>}

\* Arguments with values that are not numbers: a newest record whose metrics
\* are absent, a number or a str, and price lists with a str or a NaN close.
MalformedRecords ==
    {<<MkDict([revenue |-> r, total_debt |-> d, shareholders_equity |-> e,
               net_income |-> ni]),
       [revenue |-> 100, earnings_per_share |-> 50, total_debt |-> 70,
        shareholders_equity |-> 100, ebit |-> 100]>> :
        r \in Opt({100, Text}), d \in Opt({30, Text}),
        e \in Opt({100, Text}), ni \in Opt({100, Text})}

MalformedPrices ==
    {PriceList(n, a, <<10>>, c) :
        n \in {VolatilityMinPrices + 1, MomentumMinPrices + 1},
        a \in {<<10>>, <<0>>, <<Text>>, <<NaN>>}, c \in {<<11>>, <<Text>>, <<NaN>>}}

\* The arguments a caller holds for one ticker; the other tickers get none.
Holding(ticker, items, bars, cap) ==
    /\ held_items = [t \in Tickers |-> IF t = ticker THEN items ELSE << >>]
    /\ held_prices = [t \in Tickers |-> IF t = ticker THEN bars ELSE << >>]
    /\ held_market_cap = [t \in Tickers |-> IF t = ticker THEN cap ELSE None]

Call(ticker, scorer) == [ticker |-> ticker, scorer |-> scorer]

\* One call of one scorer on one ticker's arguments.
OneCall(scorer, items, bars, cap) ==
    /\ Holding("QCOM", items, bars, cap)
    /\ pending = <<Call("QCOM", scorer)>>

\* A caller going through two tickers in turn: the same scorer on the first
\* ticker before and after a call on the second.
Rounds ==
    {[i \in 1..MaxCalls |-> IF i % 2 = 1 THEN Call("QCOM", f) ELSE Call("D05.SI", g)] :
        f \in {"analyze_growth_and_momentum", "analyze_risk_reward", "analyze_valuation"},
        g \in {"analyze_growth_and_momentum", "analyze_risk_reward", "analyze_valuation"}}

RoundRecords ==
    RecordLists({[revenue |-> 115, earnings_per_share |-> 54, total_debt |-> 30,
                  shareholders_equity |-> 100, net_income |-> 100,
                  free_cash_flow |-> 100, ebit |-> 100, ebitda |-> 100,
                  cash_and_equivalents |-> 1000],
                 [revenue |-> 100, total_debt |-> 150, shareholders_equity |-> 0]},
                {<< >>},
                {[revenue |-> 100, earnings_per_share |-> 50, total_debt |-> 70,
                  shareholders_equity |-> 100]})

TwoTickers ==
    \E itemsQ \in RoundRecords, itemsD \in RoundRecords,
       barsQ \in PlainPrices, barsD \in PlainPrices,
       capQ \in {None, <<1000>>}, plan \in Rounds :
        /\ held_items = [t \in Tickers |-> IF t = "QCOM" THEN itemsQ ELSE itemsD]
        /\ held_prices = [t \in Tickers |-> IF t = "QCOM" THEN barsQ ELSE barsD]
        /\ held_market_cap = [t \in Tickers |-> IF t = "QCOM" THEN capQ ELSE <<2500>>]
        /\ pending = plan

InitScorers ==
    /\ AgentIdle
    /\ LineItemsIdle
    /\ InsiderIdle
    /\ ToolsIdle
    /\ \/ \E items \in RecordLists(GrowthRecords, GrowthFillers, GrowthRecords),
             bars \in PlainPrices :
              OneCall("analyze_growth_and_momentum", items, bars, None)
       \/ \E items \in PlainRecords, bars \in PriceLists,
             scorer \in {"analyze_growth_and_momentum", "analyze_risk_reward"} :
              OneCall(scorer, items, bars, None)
       \/ \E items \in RecordLists(RiskRecords, RiskFillers, RiskOldest),
             bars \in {PriceList(1, <<10>>, <<10>>, <<10>>)} :
              OneCall("analyze_risk_reward", items, bars, None)
       \/ \E items \in RecordLists(ValuationRecords, ValuationFillers, ValuationFillers),
             cap \in MarketCaps :
              OneCall("analyze_valuation", items, << >>, cap)
       \/ \E items \in MalformedRecords, bars \in MalformedPrices,
             cap \in {<<1000>>, <<Text>>},
             scorer \in {"analyze_growth_and_momentum", "analyze_risk_reward",
                         "analyze_valuation"} :
              OneCall(scorer, items, bars, cap)
       \/ TwoTickers
    /\ given = [financial_line_items |-> held_items,
                prices |-> held_prices, market_cap |-> held_market_cap]
    /\ returned = << >>

\* The caller gets a scorer's result back; the scorer is handed the caller's
\* objects and assigns to none of them.
Return(result) ==
    /\ returned' = Append(returned, [ticker |-> Head(pending).ticker,
                                     scorer |-> Head(pending).scorer,
                                     result |-> result])
    /\ pending' = Tail(pending)
    /\ UNCHANGED <<given, agentVars, lineItemVars, insiderVars, llmVars,
                 tavilyVars, cliVars>>

\* A growth scorer that consumes the caller's list: it takes the records off
\* the list it was handed as it reads them.
CallGrowthConsuming ==
    /\ pending # << >>
    /\ Head(pending).scorer = "analyze_growth_and_momentum"
    /\ Return(analyze_growth_and_momentum(held_items[Head(pending).ticker],
                                          held_prices[Head(pending).ticker]))
    /\ held_items' =
           [held_items EXCEPT ![Head(pending).ticker] = << >>]
    /\ UNCHANGED <<held_prices, held_market_cap>>

CallGrowth ==
    /\ pending # << >>
    /\ Head(pending).scorer = "analyze_growth_and_momentum"
    /\ Return(analyze_growth_and_momentum(held_items[Head(pending).ticker],
                                          held_prices[Head(pending).ticker]))
    /\ UNCHANGED <<held_items, held_prices, held_market_cap>>

CallRiskReward ==
    /\ pending # << >>
    /\ Head(pending).scorer = "analyze_risk_reward"
    /\ Return(analyze_risk_reward(held_items[Head(pending).ticker],
                                  held_prices[Head(pending).ticker]))
    /\ UNCHANGED <<held_items, held_prices, held_market_cap>>

CallValuation ==
    /\ pending # << >>
    /\ Head(pending).scorer = "analyze_valuation"
    /\ Return(analyze_valuation(held_items[Head(pending).ticker],
                                held_market_cap[Head(pending).ticker]))
    /\ UNCHANGED <<held_items, held_prices, held_market_cap>>

NextScorers == CallGrowth \/ CallRiskReward \/ CallValuation

SpecScorers == InitScorers /\ [][NextScorers]_vars

(***************************************************************************)
(* The statements, prices and snapshots the data layer can hold            *)
(***************************************************************************)

\* A row without NaN.
Cells(values) == [i \in 1..Len(values) |-> <<values[i]>>]

IncomeStrong ==
    [columns |-> <<202312, 202212, 202112, 202012>>,
     rows |-> ("Total Revenue" :> Cells(<<130, 120, 110, 100>>))
           @@ ("Basic EPS" :> Cells(<<65, 60, 55, 50>>))
           @@ ("Net Income" :> Cells(<<100, 90, 80, 70>>))
           @@ ("EBIT" :> Cells(<<120, 110, 100, 90>>))
           @@ ("EBITDA" :> Cells(<<150, 140, 130, 120>>))
           @@ ("Gross Profit" :> Cells(<<65, 60, 55, 50>>))
           @@ ("Operating Income" :> Cells(<<26, 24, 22, 20>>))]

\* Secondary labels only, a fiscal year ending in September, no EBIT and no
\* EBITDA row, and NaN cells.
IncomeAliased ==
    [columns |-> <<202309, 202209>>,
     rows |-> ("Total Revenue" :> <<None, <<100>>>>)
           @@ ("Operating Revenue" :> Cells(<<104, 99>>))
           @@ ("Diluted EPS" :> Cells(<<52, 50>>))
           @@ ("Net Income Common Stockholders" :> Cells(<<40, 30>>))
           @@ ("Interest Expense" :> Cells(<<5, 5>>))
           @@ ("Tax Provision" :> <<<<10>>, None>>)
           @@ ("Depreciation And Amortization" :> Cells(<<20, 20>>))]

IncomeDeclining ==
    [columns |-> <<202312, 202212>>,
     rows |-> ("Total Revenue" :> Cells(<<90, 100>>))
           @@ ("Basic EPS" :> Cells(<<-5, 50>>))
           @@ ("Net Income" :> Cells(<<-10, 70>>))
           @@ ("EBIT" :> Cells(<<0, 90>>))
           @@ ("Reconciled Depreciation" :> Cells(<<15, 15>>))]

BalanceSound ==
    [columns |-> <<202312, 202212, 202112, 202012, 201912>>,
     rows |-> ("Total Debt" :> Cells(<<30, 30, 40, 40, 50>>))
           @@ ("Stockholders Equity" :> Cells(<<100, 90, 80, 70, 60>>))
           @@ ("Cash And Cash Equivalents" :> Cells(<<20, 20, 20, 20, 20>>))
           @@ ("Share Issued" :> Cells(<<10, 10, 10, 10, 10>>))]

\* Little debt: a debt-to-equity below 0.3.
BalanceLight ==
    [columns |-> <<202312, 202212>>,
     rows |-> ("Total Debt" :> Cells(<<20, 25>>))
           @@ ("Stockholders Equity" :> Cells(<<100, 90>>))
           @@ ("Cash And Cash Equivalents" :> Cells(<<40, 30>>))]

\* No equity left, the secondary equity label, and a row under a label that
\* the income statement also carries.
BalanceStretched ==
    [columns |-> <<202312, 202212>>,
     rows |-> ("Total Debt" :> Cells(<<150, 150>>))
           @@ ("Total Equity Gross Minority Interest" :> Cells(<<0, 100>>))
           @@ ("Total Revenue" :> Cells(<<999, 999>>))]

CashflowPlain ==
    [columns |-> <<202312, 202212>>,
     rows |-> ("Free Cash Flow" :> Cells(<<80, 70>>))
           @@ ("Capital Expenditure" :> Cells(<<-20, -20>>))]

EmptyNoRows == [columns |-> <<202312>>, rows |-> << >>]

EmptyNoColumns == [columns |-> << >>, rows |-> ("Total Debt" :> << >>)]

IncomeTables == {None, <<EmptyNoRows>>, <<IncomeStrong>>, <<IncomeAliased>>,
                 <<IncomeDeclining>>}

BalanceTables == {None, <<EmptyNoColumns>>, <<BalanceSound>>, <<BalanceLight>>,
                  <<BalanceStretched>>}

CashflowTables == {None, <<EmptyNoRows>>, <<CashflowPlain>>}

Statements(income, balance, cashflow, failing) ==
    [income_stmt |-> income, balance_sheet |-> balance, cashflow |-> cashflow,
     fault |-> failing]

\* line_items of the agent's call, lines 15-25, and its limit, line 27.
AgentLineItems ==
    <<"revenue", "earnings_per_share", "total_debt", "shareholders_equity",
      "net_income", "free_cash_flow", "ebit", "ebitda", "cash_and_equivalents">>

AgentLimit == 4

\* limit: int = 10
DefaultLimit == 10

(***************************************************************************)
(* Calls of yf_search_line_items                                           *)
(***************************************************************************)

\* The largest limit tried, besides the default.
MaxLimit == 4

RequestedItems ==
    {AgentLineItems,
     <<"gross_margin", "operating_margin", "ebit", "ebitda", "ev">>,
     <<"revenue", "Total Debt", "revenue", "dividends">>,
     << >>}

Periods == {"annual", "quarterly", "ttm", ""}

Limits == (-1..MaxLimit) \cup {DefaultLimit}

InitLineItems ==
    /\ AgentIdle
    /\ ScorersIdle
    /\ InsiderIdle
    /\ ToolsIdle
    /\ \E income \in IncomeTables, balance \in BalanceTables,
          cashflow \in CashflowTables, failing \in 0..Len(StatementLoads) :
           /\ failing # 0 => income = <<IncomeStrong>> /\ balance = <<BalanceSound>>
                             /\ cashflow = None
           /\ statements = Statements(income, balance, cashflow, failing)
    /\ request = None
    /\ response = None

\* One call of yf_search_line_items, from its first line to its return or
\* to the exception that leaves it.
SearchLineItems ==
    /\ request = None
    /\ \E line_items \in RequestedItems, period \in Periods, limit \in Limits :
           /\ request' = <<[line_items |-> line_items, period |-> period,
                            limit |-> limit]>>
           /\ response' = <<yf_search_line_items(statements, line_items, period, limit)>>
    /\ UNCHANGED <<statements, agentVars, scorerVars, insiderVars, llmVars,
                 tavilyVars, cliVars>>

NextLineItems == SearchLineItems

SpecLineItems == InitLineItems /\ [][NextLineItems]_vars

(***************************************************************************)
(* Calls of yf_get_insider_trades                                          *)
(***************************************************************************)

\* A row of the transactions table: its date cells, its index and its
\* Insider cell (None for NaN).
TradeRow(start, date, index, insider) ==
    ("Start Date" :> start) @@ ("Date" :> date) @@ ("index" :> index)
        @@ ("Insider" :> insider)

\* Rows out of date order, with a tie, a NaT, date texts and an Insider NaN;
\* the Date column and the index hold other days than Start Date.
TradeRows ==
    <<TradeRow(Timestamp(20240301), Str("2024-12-31"), Timestamp(20240701), <<"Nadella">>),
      TradeRow(Timestamp(20240630), Str("unknown"), Timestamp(20240630), <<"Hood">>),
      TradeRow(NaT, NaT, Timestamp(20240301), <<"Smith">>),
      TradeRow(Timestamp(20241231), Str("2024-03-01"), Timestamp(20241231), None),
      TradeRow(Timestamp(20240630), Str("2024-07-01"), Timestamp(20230101), <<"Althoff">>),
      TradeRow(Timestamp(20240701), Str("2024-06-30"), NaT, <<"Numoto">>)>>

\* What the insider_transactions property can yield: an exception, None, an
\* empty table, or the first rows of TradeRows under the columns a table
\* has and the kind of its index.
TradeTables ==
    {[fault |-> TRUE, frame |-> None], [fault |-> FALSE, frame |-> None]}
    \cup {[fault |-> FALSE,
           frame |-> <<[columns |-> columns \cup {"Insider"},
                        datetime_index |-> datetime_index,
                        rows |-> SubSeq(TradeRows, 1, n)]>>] :
             columns \in SUBSET {"Start Date", "Date"},
             datetime_index \in BOOLEAN,
             n \in {0, 2, Len(TradeRows)}}

\* limit: int = 1000
InsiderLimits == (-1..MaxLimit) \cup {1000}

InitInsider ==
    /\ AgentIdle
    /\ ScorersIdle
    /\ LineItemsIdle
    /\ ToolsIdle
    /\ insider_transactions \in TradeTables
    /\ insider_call = None
    /\ insider_trades = None

\* One call of yf_get_insider_trades, from its first line to its return, for
\* a ticker in either case, ISO and other date texts, and a datetime.now()
\* before or after the newest trade.
GetInsiderTrades ==
    /\ insider_call = None
    /\ \E ticker \in {"MSFT", "msft"},
          end_date \in {"2024-06-30", "2024-12-31", "yesterday"},
          start_date \in Opt({"", "2024-03-01", "2024-07-01", "last year"}),
          limit \in InsiderLimits,
          now \in {20240815, 20250101} :
           /\ insider_call' = <<[ticker |-> ticker, end_date |-> end_date,
                                 start_date |-> start_date, limit |-> limit,
                                 now |-> now]>>
           /\ insider_trades' =
                  <<yf_get_insider_trades(insider_transactions, ticker, end_date,
                                          start_date, limit, now)>>
    /\ UNCHANGED <<insider_transactions, agentVars, scorerVars, lineItemVars,
                 llmVars, tavilyVars, cliVars>>

NextInsider == GetInsiderTrades

SpecInsider == InitInsider /\ [][NextInsider]_vars

(***************************************************************************)
(* stanley_druckenmiller_agent                                             *)
(***************************************************************************)

\* The most tickers in one call.
MaxTickers == 2

TickerLists == UNION {[1..n -> Tickers] : n \in 0..MaxTickers}

\* What the data layer can hold for a ticker when the agent asks.
AgentStatements ==
    {Statements(<<IncomeStrong>>, <<BalanceSound>>, <<CashflowPlain>>, 0),
     Statements(<<IncomeStrong>>, <<BalanceLight>>, <<CashflowPlain>>, 0),
     Statements(<<IncomeAliased>>, <<BalanceStretched>>, None, 0),
     Statements(<<IncomeDeclining>>, <<BalanceStretched>>, <<EmptyNoRows>>, 0),
     Statements(None, <<BalanceSound>>, <<CashflowPlain>>, 0),
     Statements(None, <<EmptyNoColumns>>, None, 0),
     Statements(<<IncomeStrong>>, <<BalanceSound>>, <<CashflowPlain>>, 1),
     Statements(<<IncomeStrong>>, <<BalanceSound>>, <<CashflowPlain>>, 3)}

\* What yf_get_prices.invoke can give, None when it raises: the dict of lines
\* 204-212 of prices.py, of which the agent reads "prices".
PricesResponse(bars) == [data_source |-> "yfinance", prices |-> bars]

AgentPrices ==
    {None,
     <<PricesResponse(<< >>)>>,
     <<PricesResponse(PriceList(VolatilityMinPrices + 1, <<30>>, <<31>>, <<31>>))>>,
     <<PricesResponse(PriceList(MomentumMinPrices + 1, <<10>>, <<10>>, <<16>>))>>,
     <<PricesResponse(PriceList(MomentumMinPrices + 1, <<16>>, <<15>>, <<15>>))>>,
     <<PricesResponse(PriceList(200, <<8>>, <<10>>, <<10>>))>>}

\* What yf_get_price_snapshot.invoke can give, None when it raises: the dict
\* of lines 168-171 of prices.py, of whose snapshot the agent reads market_cap.
SnapshotResponse(cap) ==
    [data_source |-> "yfinance", snapshot |-> MkDict([market_cap |-> cap])]

AgentSnapshots ==
    {None, <<SnapshotResponse(None)>>, <<SnapshotResponse(<<1000>>)>>,
     <<SnapshotResponse(<<2500>>)>>}

\* snapshot_data.get(ticker, {}).get("snapshot", {}).get("market_cap")
SnapshotMarketCap(snapshot_response, ticker) ==
    IF ticker \notin DOMAIN snapshot_response THEN None
    ELSE IF "snapshot" \notin DOMAIN snapshot_response[ticker] THEN None
    ELSE Get(snapshot_response[ticker]["snapshot"], "market_cap")

\* The three fetches and the three scorer calls of one pass of the loop, for
\* what the data layer gives: the exception that leaves the loop, or the
\* report to store, with the snapshot response the pass was given.
Iteration(ticker, held, prices_data, snapshot) ==
    LET fetched == yf_search_line_items(held, AgentLineItems, "annual", AgentLimit)
    IN  IF fetched.raised \/ prices_data = None \/ snapshot = None
        THEN [raised |-> TRUE, report |-> None, snapshot |-> None]
        ELSE LET cap == SnapshotMarketCap(snapshot[1], ticker)
                 bars == IF "prices" \in DOMAIN prices_data[1]
                         THEN prices_data[1]["prices"] ELSE << >>
                 growth_momentum_analysis ==
                     analyze_growth_and_momentum(fetched.records, bars)
                 risk_reward_analysis == analyze_risk_reward(fetched.records, bars)
                 valuation_analysis == analyze_valuation(fetched.records, cap)
             IN  IF \/ growth_momentum_analysis.raised
                    \/ risk_reward_analysis.raised
                    \/ valuation_analysis.raised
                 THEN [raised |-> TRUE, report |-> None, snapshot |-> None]
                 ELSE [raised |-> FALSE,
                       report |-> <<Report(growth_momentum_analysis,
                                           risk_reward_analysis,
                                           valuation_analysis)>>,
                       snapshot |-> snapshot]

\* The passes the loop can make for a ticker, over all the data layer can hold.
Iterations ==
    {[ticker |-> ticker, pass |-> Iteration(ticker, held, prices_data, snapshot)] :
        ticker \in Tickers, held \in AgentStatements, prices_data \in AgentPrices,
        snapshot \in AgentSnapshots}

Init ==
    /\ tickers \in TickerLists
    /\ idx = 0
    /\ analysis_data = << >>
    /\ snapshot_data = None
    /\ outcome = "running"
    /\ ScorersIdle
    /\ LineItemsIdle
    /\ InsiderIdle
    /\ ToolsIdle

\* One pass of the loop that reaches line 71 and stores the ticker's report.
AnalyzeTicker ==
    /\ outcome = "running"
    /\ idx < Len(tickers)
    /\ \E it \in Iterations :
           /\ it.ticker = tickers[idx + 1]
           /\ ~it.pass.raised
           /\ analysis_data' = (it.ticker :> it.pass.report[1]) @@ analysis_data
           /\ snapshot_data' = it.pass.snapshot
    /\ idx' = idx + 1
    /\ UNCHANGED <<tickers, outcome, scorerVars, lineItemVars, insiderVars,
                 llmVars, tavilyVars, cliVars>>

\* One pass of the loop in which a fetch or a scorer raises: nothing catches
\* the exception, it leaves stanley_druckenmiller_agent.
AnalyzeTickerRaises ==
    /\ outcome = "running"
    /\ idx < Len(tickers)
    /\ \E it \in Iterations : it.ticker = tickers[idx + 1] /\ it.pass.raised
    /\ outcome' = "raised"
    /\ UNCHANGED <<tickers, idx, analysis_data, snapshot_data, scorerVars,
                 lineItemVars, insiderVars, llmVars, tavilyVars, cliVars>>

\* return analysis_data
ReturnAnalysis ==
    /\ outcome = "running"
    /\ idx = Len(tickers)
    /\ outcome' = "returned"
    /\ UNCHANGED <<tickers, idx, analysis_data, snapshot_data, scorerVars,
                 lineItemVars, insiderVars, llmVars, tavilyVars, cliVars>>

Next == AnalyzeTicker \/ AnalyzeTickerRaises \/ ReturnAnalysis

Spec == Init /\ [][Next]_vars

(***************************************************************************)
(* model.py: get_chat_model, call_llm and call_llm_stream                  *)
(*                                                                         *)
(* The environment is a function from the names of the variables that are  *)
(* set to their values.  A chat model is the record of the class           *)
(* constructed and the arguments it was constructed with.  A chunk of a    *)
(* stream is its optional content: None for a chunk without the attribute  *)
(* content, <<"">> for an empty content.                                   *)
(***************************************************************************)

\* f"LLM_API_{model.upper()}_KEY"
ApiKeyVar(model) == "LLM_API_" \o upper(model) \o "_KEY"

\* f"LLM_API_{model.upper()}_{... 'STRONG_' if strong else ''}MODEL"
ModelNameVar(model, model_type) ==
    "LLM_API_" \o upper(model) \o "_"
        \o (IF upper(model_type) = "STRONG" THEN upper(model_type) \o "_"
            ELSE "")
        \o "MODEL"

\* get_chat_model(model, model_type, temperature, streaming) under the
\* environment env.
get_chat_model(env, model, model_type, temperature, streaming) ==
    LET api_key == Get(env, ApiKeyVar(model))
        model_name ==
            IF ModelNameVar(model, model_type) \in DOMAIN env
            THEN env[ModelNameVar(model, model_type)] ELSE "gpt-5-mini"
        class == IF model = "claude" THEN "ChatAnthropic"
                 ELSE IF model = "gemini" THEN "ChatGoogleGenerativeAI"
                 ELSE "ChatOpenAI"
    IN  IF api_key = None \/ api_key = <<"">>
        THEN [raised |-> TRUE, error |-> "ValueError"]
        ELSE [raised |-> FALSE, class |-> class, model |-> model_name,
              temperature |-> temperature, api_key |-> api_key[1],
              read |-> ApiKeyVar(model), streaming |-> streaming]

\* What call_llm makes of the chat model before it enters the chain.
Runnable(output_schema, tools) ==
    IF output_schema # None
    THEN IF output_schema[1] = "OptimizedToolArgs" THEN "json_mode"
         ELSE "function_calling"
    ELSE IF tools # None THEN "bind_tools"
    ELSE "llm"

\* range(3): the attempts of the retry loop are 0, 1, 2.
Attempts == 3

\* The sleep is the same after every failure.
SleepFlat(attempt) == 500

\* time.sleep(0.5 * (2**attempt)), in milliseconds.
Sleep(attempt) == 500 * 2^attempt

\* model_selector.MODELS: the providers select_model_provider offers, in
\* the order of the menu (the display names, which no decision reads, are
\* left out).
MODELS ==
    <<[model_provider |-> "openai", description |-> "OpenAI"],
      [model_provider |-> "anthropic", description |-> "Anthropic"],
      [model_provider |-> "google", description |-> "Google"]>>

\* The providers select_model_provider can return.
SelectableProviders == {MODELS[i].model_provider : i \in DOMAIN MODELS}

(***************************************************************************)
(* Calls of call_llm and call_llm_stream                                   *)
(***************************************************************************)

\* The providers of MODELS and the two names get_chat_model tests for.
LlmProviders == SelectableProviders \cup {"claude", "gemini"}

\* The environments: of the keys of openai, anthropic and google any may be
\* set, the key of openai may be set to the empty text, and the keys of
\* claude and gemini and the model names may be set or not.
LlmEnv(keys, blank, names) ==
    [v \in {ApiKeyVar(m) : m \in keys \cup blank}
           \cup {ModelNameVar(m, t) :
                    m \in names, t \in {"standard", "strong"}} |->
        IF \E m \in blank : v = ApiKeyVar(m) THEN ""
        ELSE IF \E m \in keys : v = ApiKeyVar(m)
             THEN "key in " \o v
        ELSE "model in " \o v]

LlmEnvs ==
    {LlmEnv(keys \cup more, blank \ keys, names) :
        keys \in SUBSET {"openai", "anthropic", "google"},
        more \in {{}, {"claude", "gemini"}},
        blank \in {{}, {"openai"}},
        names \in {{}, LlmProviders}}

\* What the provider streams for a request, from the first chunk on every
\* call of chain.stream.
Responses ==
    {<< >>,
     <<<<"Hel">>, <<"">>, <<"lo">>>>,
     <<None, <<"Hi">>>>}

\* The exceptions chain.invoke and chain.stream raise in the model.
LlmErrors == {"APIConnectionError", "KeyboardInterrupt", "RateLimitError"}

InitLlm ==
    /\ AgentIdle
    /\ ScorersIdle
    /\ LineItemsIdle
    /\ InsiderIdle
    /\ TavilyIdle
    /\ CliIdle
    /\ llm_env \in LlmEnvs
    /\ llm_call = None
    /\ llm_client = None
    /\ llm_attempt = 0
    /\ llm_invocations = 0
    /\ llm_errors = << >>
    /\ llm_slept = << >>
    /\ llm_cursor = 0
    /\ llm_yielded = << >>
    /\ llm_outcome = "idle"

\* call_llm up to its first chain.invoke: the chat model is built without
\* streaming and bound; a ValueError of get_chat_model ends the call.
CallLlm ==
    /\ llm_outcome = "idle"
    /\ \E model \in LlmProviders, model_type \in {"standard", "strong"},
          output_schema \in Opt({"Answer", "OptimizedToolArgs"}),
          tools \in Opt({"yf_get_prices"}) :
        LET llm == get_chat_model(llm_env, model, model_type, 0, FALSE)
        IN  /\ llm_call' = <<[function |-> "call_llm", model |-> model,
                              model_type |-> model_type,
                              output_schema |-> output_schema,
                              tools |-> tools]>>
            /\ IF llm.raised
               THEN /\ llm_outcome' = llm.error
                    /\ UNCHANGED <<llm_client, llm_invocations>>
               ELSE /\ llm_client' =
                        <<[llm |-> llm,
                           runnable |-> Runnable(output_schema, tools)]>>
                    /\ llm_invocations' = 1
                    /\ llm_outcome' = "invoking"
    /\ UNCHANGED <<llm_env, llm_attempt, llm_errors, llm_slept, llm_cursor,
                   llm_yielded, agentVars, scorerVars, lineItemVars, insiderVars,
                   tavilyVars, cliVars>>

\* call_llm_stream up to its first chain.stream: the chat model is built
\* with streaming and enters the chain as it is.
CallLlmStream ==
    /\ llm_outcome = "idle"
    /\ \E model \in LlmProviders, model_type \in {"standard", "strong"},
          chunks \in Responses :
        LET llm == get_chat_model(llm_env, model, model_type, 0, TRUE)
        IN  /\ llm_call' = <<[function |-> "call_llm_stream",
                              model |-> model, model_type |-> model_type,
                              response |-> chunks]>>
            /\ IF llm.raised
               THEN /\ llm_outcome' = llm.error
                    /\ UNCHANGED <<llm_client, llm_invocations>>
               ELSE /\ llm_client' = <<[llm |-> llm, runnable |-> "llm"]>>
                    /\ llm_invocations' = 1
                    /\ llm_outcome' = "streaming"
    /\ UNCHANGED <<llm_env, llm_attempt, llm_errors, llm_slept, llm_cursor,
                   llm_yielded, agentVars, scorerVars, lineItemVars, insiderVars,
                   tavilyVars, cliVars>>

\* chain.invoke returns: call_llm returns its result.
InvokeReturns ==
    /\ llm_outcome = "invoking"
    /\ llm_outcome' = "returned"
    /\ UNCHANGED <<llm_env, llm_call, llm_client, llm_attempt,
                   llm_invocations, llm_errors, llm_slept, llm_cursor,
                   llm_yielded,
                   agentVars, scorerVars, lineItemVars, insiderVars,
                   tavilyVars, cliVars>>

\* The stream delivers its next chunk: a chunk with a non-empty content is
\* yielded.
StreamYields ==
    /\ llm_outcome = "streaming"
    /\ llm_cursor < Len(llm_call[1].response)
    /\ llm_cursor' = llm_cursor + 1
    /\ LET chunk == llm_call[1].response[llm_cursor + 1]
       IN  llm_yielded' = IF chunk # None /\ chunk[1] # ""
                          THEN Append(llm_yielded, chunk[1])
                          ELSE llm_yielded
    /\ UNCHANGED <<llm_env, llm_call, llm_client, llm_attempt,
                   llm_invocations, llm_errors, llm_slept, llm_outcome,
                   agentVars, scorerVars, lineItemVars, insiderVars,
                   tavilyVars, cliVars>>

\* The stream is exhausted: break, and the generator ends.
StreamEnds ==
    /\ llm_outcome = "streaming"
    /\ llm_cursor = Len(llm_call[1].response)
    /\ llm_outcome' = "returned"
    /\ UNCHANGED <<llm_env, llm_call, llm_client, llm_attempt,
                   llm_invocations, llm_errors, llm_slept, llm_cursor,
                   llm_yielded,
                   agentVars, scorerVars, lineItemVars, insiderVars,
                   tavilyVars, cliVars>>

\* chain.invoke, or chain.stream at any chunk, raises: an APIConnectionError
\* before the last attempt sleeps and starts the next attempt, on a new
\* invocation of the chain; anything else leaves the call.
AttemptRaises ==
    /\ llm_outcome \in {"invoking", "streaming"}
    /\ \E error \in LlmErrors :
        /\ llm_errors' = Append(llm_errors, error)
        /\ IF error = "APIConnectionError" /\ llm_attempt # Attempts - 1
           THEN /\ llm_slept' = Append(llm_slept, Sleep(llm_attempt))
                /\ llm_attempt' = llm_attempt + 1
                /\ llm_invocations' = llm_invocations + 1
                /\ llm_cursor' = 0
                /\ UNCHANGED llm_outcome
           ELSE /\ llm_outcome' = error
                /\ UNCHANGED <<llm_attempt, llm_invocations, llm_slept,
                               llm_cursor>>
    /\ UNCHANGED <<llm_env, llm_call, llm_client, llm_yielded,
                   agentVars, scorerVars, lineItemVars, insiderVars,
                   tavilyVars, cliVars>>

NextLlm ==
    \/ CallLlm
    \/ CallLlmStream
    \/ InvokeReturns
    \/ StreamYields
    \/ StreamEnds
    \/ AttemptRaises

SpecLlm == InitLlm /\ [][NextLlm]_vars

(***************************************************************************)
(* tools/search/tavily.py: the Tavily tools and their client               *)
(*                                                                         *)
(* A TavilySearch instance is <<n>>, the n-th constructed.  A query is the *)
(* text of the f-string.  What tool.invoke returns is the instance asked   *)
(* and the query put to it.                                                *)
(***************************************************************************)

\* _get_tavily_tool() when TAVILY_API_KEY is api_key and built instances
\* exist: `not api_key` holds of an unset and of an empty variable.
get_tavily_tool(api_key, built) ==
    IF api_key = None \/ api_key = <<"">>
    THEN [raised |-> TRUE, error |-> "ValueError"]
    ELSE [raised |-> FALSE, tool |-> <<built + 1>>]

\* The test `_tavily_tool is None` left out: a client is built on every use.
ensure_tavily_constructed(cached, api_key, built) ==
    get_tavily_tool(api_key, built)

\* _ensure_tavily_initialized() when the global _tavily_tool is cached.
ensure_tavily_initialized(cached, api_key, built) ==
    IF cached = None THEN get_tavily_tool(api_key, built)
    ELSE [raised |-> FALSE, tool |-> cached]

\* The day of the year 2024 of a day number yyyymmdd of that year.
DayOfYear(day) ==
    <<0, 31, 60, 91, 121, 152, 182, 213, 244, 274, 305, 335>>
        [(day \div 100) % 100] + (day % 100)

\* time_context: "recent" for a trade date at most 14 days before now, or
\* one that does not parse.
TimeContext(trade_date, now) ==
    IF fromisoformat(trade_date) = None THEN "recent"
    ELSE IF DayOfYear(now) - DayOfYear(fromisoformat(trade_date)[1]) <= 14
         THEN "recent"
    ELSE "around " \o trade_date

\* The dict a tool returns, given the instance it asks.
SocialMediaSentiment(tool, ticker, trade_date, now) ==
    LET query == ticker
                   \o " stock sentiment investor opinion reddit stocktwits "
                   \o TimeContext(trade_date, now)
    IN  [data_source |-> "tavily", ticker |-> upper(ticker),
         trade_date |-> trade_date, query |-> query,
         results |-> [by |-> tool, query |-> query]]

MacroeconomicNews(tool, trade_date, now) ==
    LET query == "stock market news economic trends Fed interest rates "
                   \o TimeContext(trade_date, now)
    IN  [data_source |-> "tavily", trade_date |-> trade_date,
         query |-> query, results |-> [by |-> tool, query |-> query]]

CompanyNews(tool, ticker, query_context) ==
    LET query ==
            IF query_context # None /\ query_context # <<"">>
            THEN ticker \o " " \o query_context[1] \o " latest news updates"
            ELSE ticker
                   \o " stock news earnings guidance analyst upgrades recent"
    IN  [data_source |-> "tavily", ticker |-> upper(ticker),
         query_context |-> query_context, query |-> query,
         results |-> [by |-> tool, query |-> query]]

(***************************************************************************)
(* Calls of the Tavily tools                                               *)
(***************************************************************************)

\* The most tool calls in one run of the process.
MaxSearches == 3

InitTavily ==
    /\ AgentIdle
    /\ ScorersIdle
    /\ LineItemsIdle
    /\ InsiderIdle
    /\ LlmIdle
    /\ CliIdle
    /\ tavily_key \in {None, <<"">>, <<"tvly-1">>}
    /\ tavily_tool = None
    /\ tavily_built = 0
    /\ tavily_calls = << >>

\* The environment sets TAVILY_API_KEY, or unsets it, between two calls.
SetTavilyKey ==
    /\ \E value \in {None, <<"">>, <<"tvly-1">>} :
        /\ value # tavily_key
        /\ tavily_key' = value
    /\ UNCHANGED <<tavily_tool, tavily_built, tavily_calls, agentVars,
                   scorerVars, lineItemVars, insiderVars, llmVars, cliVars>>

\* The TavilySearch instances a run can construct.
TavilyTools == {<<n>> : n \in 1..MaxSearches}

\* The common course of a tool: _ensure_tavily_initialized() first, which
\* may construct and cache the client or raise; then the dict of the tool,
\* dicts[tool] for the instance asked, is returned.  Each call is logged
\* with the key it found.
TavilyCall(function, dicts) ==
    /\ Len(tavily_calls) < MaxSearches
    /\ LET ensured == ensure_tavily_initialized(tavily_tool, tavily_key,
                                                tavily_built)
       IN  IF ensured.raised
           THEN /\ tavily_calls' =
                       Append(tavily_calls,
                              [function |-> function, key |-> tavily_key,
                               raised |-> TRUE, error |-> ensured.error])
                /\ UNCHANGED <<tavily_tool, tavily_built>>
           ELSE /\ tavily_tool' = ensured.tool
                /\ tavily_built' = IF ensured.tool = tavily_tool
                                   THEN tavily_built ELSE tavily_built + 1
                /\ tavily_calls' =
                       Append(tavily_calls,
                              [function |-> function, key |-> tavily_key,
                               raised |-> FALSE,
                               returned |-> dicts[ensured.tool]])
    /\ UNCHANGED <<tavily_key, agentVars, scorerVars, lineItemVars,
                   insiderVars, llmVars, cliVars>>

GetSocialMediaSentiment ==
    \E trade_date \in {"2024-03-01", "n/a"}, now \in {20240310, 20240701} :
        TavilyCall("tavily_get_social_media_sentiment",
                   [tool \in TavilyTools |->
                       SocialMediaSentiment(tool, "msft", trade_date, now)])

GetMacroeconomicNews ==
    \E trade_date \in {"2024-03-01", "n/a"}, now \in {20240310, 20240701} :
        TavilyCall("tavily_get_macroeconomic_news",
                   [tool \in TavilyTools |->
                       MacroeconomicNews(tool, trade_date, now)])

GetCompanyNews ==
    \E query_context \in Opt({"earnings"}) :
        TavilyCall("tavily_get_company_news",
                   [tool \in TavilyTools |->
                       CompanyNews(tool, "msft", query_context)])

NextTavily ==
    \/ SetTavilyKey
    \/ GetSocialMediaSentiment
    \/ GetMacroeconomicNews
    \/ GetCompanyNews

SpecTavily == InitTavily /\ [][NextTavily]_vars

(***************************************************************************)
(* cli.py: main                                                            *)
(*                                                                         *)
(* get_setting, set_setting, ensure_api_key_for_model_provider,            *)
(* prompt_user and Agent are imported from modules that are not part of    *)
(* the sources at hand; each is taken by its name and its use: a setting   *)
(* is stored and read back, the key check answers true or false, the       *)
(* prompt delivers a text or None, and an Agent keeps the model it was     *)
(* constructed with.                                                       *)
(***************************************************************************)

\* DEFAULT_MODEL_PROVIDER
DEFAULT_MODEL_PROVIDER == "openai"

\* get_setting("model", default) on a stored setting.
get_setting(stored, default) == IF stored = None THEN default ELSE stored[1]

\* query.strip(), on the inputs of the model.
strip(text) ==
    CASE text = " /model " -> "/model"
      [] text = " is MSFT cheap? " -> "is MSFT cheap?"
      [] OTHER -> text

\* The selection is taken over whether or not its API key is at hand.
TakenOverUnchecked(selected, has_key) == selected # None

\* `if selected_model_provider:` and, within it,
\* `if ensure_api_key_for_model_provider(selected_model_provider):`
TakenOver(selected, has_key) == selected # None /\ has_key

\* The variable, the persisted setting and the agent's model, as one record.
ProviderState ==
    [current_model_provider |-> current_model_provider,
     setting |-> setting, agent |-> agent]

(***************************************************************************)
(* A session of the CLI                                                    *)
(***************************************************************************)

\* The most inputs processed in one session.
MaxInputs == 3

InitCli ==
    /\ AgentIdle
    /\ ScorersIdle
    /\ LineItemsIdle
    /\ InsiderIdle
    /\ LlmIdle
    /\ TavilyIdle
    /\ current_model_provider = None
    /\ setting \in Opt(SelectableProviders)
    /\ agent = None
    /\ processed = << >>
    /\ cli_at = "idle"

\* main up to its loop: the provider is the stored setting or the default,
\* the key check's answer is not used, and the agent is constructed.
Main ==
    /\ cli_at = "idle"
    /\ current_model_provider' =
          <<get_setting(setting, DEFAULT_MODEL_PROVIDER)>>
    /\ agent' = <<get_setting(setting, DEFAULT_MODEL_PROVIDER)>>
    /\ cli_at' = "prompting"
    /\ UNCHANGED <<setting, processed, agentVars, scorerVars, lineItemVars,
                   insiderVars, llmVars, tavilyVars>>

\* prompt_user returns None, or it raises KeyboardInterrupt or EOFError:
\* the loop is left.
Goodbye ==
    /\ cli_at = "prompting"
    /\ cli_at' = "exited"
    /\ UNCHANGED <<current_model_provider, setting, agent, processed,
                   agentVars, scorerVars, lineItemVars, insiderVars, llmVars,
                   tavilyVars>>

\* One pass of the loop on the input query.  For "/model" the menu answers
\* selected (None when cancelled) and the key check has_key; any other
\* non-empty input goes to agent.run, and the loop goes on whether that
\* returns or is cancelled by KeyboardInterrupt; an empty input does nothing.  The pass is logged with the provider state
\* before and after it.
ProcessInput(query, selected, has_key) ==
    /\ cli_at = "prompting"
    /\ Len(processed) < MaxInputs
    /\ IF /\ query # ""
          /\ strip(query) = "/model"
          /\ TakenOver(selected, has_key)
       THEN /\ current_model_provider' = selected
            /\ setting' = selected
            /\ agent' = selected
       ELSE UNCHANGED <<current_model_provider, setting, agent>>
    /\ processed' =
          Append(processed,
                 [query |-> query,
                  selected |-> IF query # "" /\ strip(query) = "/model"
                               THEN selected ELSE None,
                  has_key |-> has_key,
                  run_by |-> IF query # "" /\ strip(query) # "/model"
                             THEN agent ELSE None,
                  before |-> ProviderState,
                  after |-> ProviderState'])
    /\ UNCHANGED <<cli_at, agentVars, scorerVars, lineItemVars, insiderVars,
                   llmVars, tavilyVars>>

ModelCommand ==
    \E query \in {"/model", " /model "},
       selected \in Opt(SelectableProviders), has_key \in BOOLEAN :
        /\ selected = None => has_key
        /\ ProcessInput(query, selected, has_key)

Query ==
    \E query \in {"", " is MSFT cheap? ", "/models"} :
        ProcessInput(query, None, TRUE)

NextCli == Main \/ Goodbye \/ ModelCommand \/ Query

SpecCli == InitCli /\ [][NextCli]_vars

(***************************************************************************)
(* Properties of the scorers                                               *)
(***************************************************************************)

\* The arguments the caller built for the i-th call it made.
ItemsOf(i) == given.financial_line_items[returned[i].ticker]

PricesOf(i) == given.prices[returned[i].ticker]

MarketCapOf(i) == given.market_cap[returned[i].ticker]

\* Every metric value of the records is a number: not a str and not NaN.
NumericRecords(items) ==
    \A i \in 1..Len(items) :
        \A k \in DOMAIN items[i] : IsNumber(items[i][k]) /\ items[i][k] # NaN

\* The arguments of the i-th call are numbers or absent.
NumericArguments(i) ==
    /\ NumericRecords(ItemsOf(i))
    /\ returned[i].scorer # "analyze_valuation" => NumericRecords(PricesOf(i))
    /\ returned[i].scorer = "analyze_valuation" =>
           (MarketCapOf(i) = None \/ IsNumber(MarketCapOf(i)[1]))

\* C1: for every input, each of the three scorers returns a score s with
\* 0 <= s <= 10 (0..1000 in hundredths).
C1_ScoreWithinScale ==
    \A i \in 1..Len(returned) :
        /\ ~returned[i].result.raised
        /\ returned[i].result.score \in 0..1000

\* C2: with records, closes and a market cap that are numbers or absent, a
\* scorer returns a result and raises nothing, whatever is missing, zero,
\* negative, empty or too short.
C2_InsufficientDataNeverRaises ==
    \A i \in 1..Len(returned) :
        NumericArguments(i) =>
            /\ ~returned[i].result.raised
            /\ returned[i].result.score \in 0..1000

\* The risk scorer returned for a latest equity of zero against a latest debt.
C2_ZeroEquityScored ==
    \E i \in 1..Len(returned) :
        /\ returned[i].scorer = "analyze_risk_reward"
        /\ NumericArguments(i)
        /\ Len(PricesOf(i)) > 0
        /\ Len(Values(ItemsOf(i), "total_debt")) > 0
        /\ Len(Values(ItemsOf(i), "total_debt"))
               = Len(Values(ItemsOf(i), "shareholders_equity"))
        /\ Values(ItemsOf(i), "shareholders_equity")[1] = 0
        /\ Values(ItemsOf(i), "total_debt")[1] > 0
        /\ ~returned[i].result.raised

RevenueSentences ==
    {"Strong annualized revenue growth: {rev_growth:.1%}",
     "Moderate annualized revenue growth: {rev_growth:.1%}",
     "Slight annualized revenue growth: {rev_growth:.1%}",
     "Minimal/negative revenue growth: {rev_growth:.1%}",
     "Older revenue is zero/negative; can't compute revenue growth.",
     "Invalid revenue data types.",
     "Not enough revenue data points for growth calculation."}

\* The sentences of the EPS sub-scale.
EpsSentences ==
    {"Strong annualized EPS growth: {eps_growth:.1%}",
     "Moderate annualized EPS growth: {eps_growth:.1%}",
     "Slight annualized EPS growth: {eps_growth:.1%}",
     "Minimal/negative annualized EPS growth: {eps_growth:.1%}",
     "Older EPS is near zero; skipping EPS growth calculation.",
     "Invalid EPS data types.",
     "Not enough EPS data points for growth calculation."}

\* The sentences of the momentum sub-scale.
MomentumSentences ==
    {"Very strong price momentum: {pct_change:.1%}",
     "Moderate price momentum: {pct_change:.1%}",
     "Slight positive momentum: {pct_change:.1%}",
     "Negative price momentum: {pct_change:.1%}",
     "Invalid start price (<= 0); can't compute momentum.",
     "Insufficient price data for momentum calculation.",
     "Not enough recent price data for momentum analysis."}

\* The sentences of the leverage sub-scale.
LeverageSentences ==
    {"Low debt-to-equity: {de_ratio:.2f}",
     "Moderate debt-to-equity: {de_ratio:.2f}",
     "Somewhat high debt-to-equity: {de_ratio:.2f}",
     "High debt-to-equity: {de_ratio:.2f}",
     "No consistent debt/equity data available."}

\* The sentences of the volatility sub-scale.
VolatilitySentences ==
    {"Low volatility: daily returns stdev {stdev:.2%}",
     "Moderate volatility: daily returns stdev {stdev:.2%}",
     "High volatility: daily returns stdev {stdev:.2%}",
     "Very high volatility: daily returns stdev {stdev:.2%}",
     "Insufficient daily returns data for volatility calc.",
     "Not enough close-price data points for volatility analysis.",
     "Not enough price data for volatility analysis."}

\* The sentences of the P/E sub-scale.
PriceEarningsSentences ==
    {"Attractive P/E: {pe:.2f}",
     "Fair P/E: {pe:.2f}",
     "High or Very high P/E: {pe:.2f}",
     "No positive net income for P/E calculation"}

\* The sentences of the P/FCF sub-scale.
PriceFreeCashFlowSentences ==
    {"Attractive P/FCF: {pfcf:.2f}",
     "Fair P/FCF: {pfcf:.2f}",
     "High/Very high P/FCF: {pfcf:.2f}",
     "No positive free cash flow for P/FCF calculation"}

\* The sentences of the EV/EBIT sub-scale.
EvEbitSentences ==
    {"Attractive EV/EBIT: {ev_ebit:.2f}",
     "Fair EV/EBIT: {ev_ebit:.2f}",
     "High EV/EBIT: {ev_ebit:.2f}",
     "No valid EV/EBIT because EV <= 0 or EBIT <= 0"}

\* The sentences of the EV/EBITDA sub-scale.
EvEbitdaSentences ==
    {"Attractive EV/EBITDA: {ev_ebitda:.2f}",
     "Fair EV/EBITDA: {ev_ebitda:.2f}",
     "High EV/EBITDA: {ev_ebitda:.2f}",
     "No valid EV/EBITDA because EV <= 0 or EBITDA <= 0"}

\* The details a scorer can return when its precondition passes: one
\* sentence of each of its sub-scales, in order, joined by "; ".
GrowthTrails ==
    {Join(<<a, b, c>>) :
        a \in RevenueSentences, b \in EpsSentences, c \in MomentumSentences}

RiskRewardTrails ==
    {Join(<<a, b>>) : a \in LeverageSentences, b \in VolatilitySentences}

ValuationTrails ==
    {Join(<<a, b, c, d>>) :
        a \in PriceEarningsSentences, b \in PriceFreeCashFlowSentences,
        c \in EvEbitSentences, d \in EvEbitdaSentences}

\* The precondition of the scorer of the i-th call fails.
PreconditionFails(i) ==
    IF returned[i].scorer = "analyze_growth_and_momentum"
    THEN Len(ItemsOf(i)) < 2
    ELSE IF returned[i].scorer = "analyze_risk_reward"
    THEN Len(ItemsOf(i)) = 0 \/ Len(PricesOf(i)) = 0
    ELSE Len(ItemsOf(i)) = 0 \/ MarketCapOf(i) = None

\* C7: the details of every result are one explanatory sentence when the
\* scorer's precondition fails, and otherwise exactly one sentence of each
\* sub-scale in order: revenue, EPS, momentum; leverage, volatility; P/E,
\* P/FCF, EV/EBIT, EV/EBITDA.
C7_RationaleTrail ==
    \A i \in 1..Len(returned) :
        ~returned[i].result.raised =>
            IF returned[i].scorer = "analyze_growth_and_momentum"
            THEN IF PreconditionFails(i)
                 THEN returned[i].result.details
                          = "Insufficient financial data for growth analysis"
                 ELSE returned[i].result.details \in GrowthTrails
            ELSE IF returned[i].scorer = "analyze_risk_reward"
            THEN IF PreconditionFails(i)
                 THEN returned[i].result.details
                          = "Insufficient data for risk-reward analysis"
                 ELSE returned[i].result.details \in RiskRewardTrails
            ELSE IF PreconditionFails(i)
                 THEN returned[i].result.details
                          = "Insufficient data to perform valuation"
                 ELSE returned[i].result.details \in ValuationTrails

\* A valuation whose precondition passed and that scored zero on every
\* multiple still returned its four sentences.
C7_ZeroScoreFullTrail ==
    \E i \in 1..Len(returned) :
        /\ returned[i].scorer = "analyze_valuation"
        /\ ~PreconditionFails(i)
        /\ ~returned[i].result.raised
        /\ returned[i].result.score = 0
        /\ returned[i].result.details \in ValuationTrails

(***************************************************************************)
(* Properties of stanley_druckenmiller_agent                               *)
(***************************************************************************)

\* The sum of the sub-scores a report carries, in hundredths.
SubScoreSum(report) ==
    report.growth_momentum_analysis[1].score
        + report.risk_reward_analysis[1].score
        + (IF report.valuation_analysis = None THEN 0
           ELSE report.valuation_analysis[1].score)

\* The report has no valuation: none was attached, or the valuation scorer
\* stopped at its precondition (no market cap, or no records) and scored
\* nothing.
ValuationAbsent(report) ==
    \/ report.valuation_analysis = None
    \/ report.valuation_analysis[1].details = "Insufficient data to perform valuation"

\* The signal of a total (hundredths) under the three cut points of a band
\* table.
Band(total, strong_buy, buy, hold) ==
    IF total >= strong_buy THEN "Strong Buy"
    ELSE IF total >= buy THEN "Buy"
    ELSE IF total >= hold THEN "Hold"
    ELSE "Sell"

C5_TickerIsolation ==
    /\ outcome # "raised"
    /\ outcome = "returned" =>
           \A i \in 1..Len(tickers) : tickers[i] \in DOMAIN analysis_data

\* C8: every report has max_score 10 and a composite score from 0 to 10
\* (0..100 in tenths).
C8_ScoreOutOfTen ==
    \A t \in DOMAIN analysis_data :
        /\ analysis_data[t].max_score = 10
        /\ analysis_data[t].score \in 0..100

(***************************************************************************)
(* Properties of yf_search_line_items                                      *)
(***************************************************************************)

\* C9: a call with a period other than "annual" raises ValueError, whatever
\* the data layer holds and whatever items and limit are asked, before the
\* ticker is looked up or a statement loaded, and returns no record.
C9_PeriodRejectedFirst ==
    (request # None /\ request[1].period # "annual") =>
        /\ response[1].raised
        /\ response[1].exc = "ValueError"
        /\ response[1].calls = << >>
        /\ response[1].records = << >>

\* A quarterly request was rejected for a ticker whose lookup would have
\* failed.
C9_QuarterlyRejected ==
    /\ request # None
    /\ request[1].period = "quarterly"
    /\ Len(request[1].line_items) > 0
    /\ statements.fault = 1
    /\ response[1].raised
    /\ response[1].exc = "ValueError"

\* The tables of the data layer that are loaded and not empty.
TablesHeld ==
    {statements.income_stmt, statements.balance_sheet, statements.cashflow}

TablesWithData ==
    {table[1] : table \in {x \in TablesHeld :
                               /\ x # None
                               /\ DOMAIN x[1].rows # {}
                               /\ Len(x[1].columns) > 0}}

\* The period-end dates of the tables with data, and the numbers they hold
\* for a date.
DatesWithData ==
    UNION {{table.columns[j] : j \in 1..Len(table.columns)} : table \in TablesWithData}

NumbersWithData(date) ==
    UNION {{Cell(table, label, date)[1] :
                label \in {l \in DOMAIN table.rows : Cell(table, l, date) # None}} :
           table \in TablesWithData}

\* The requested items that are read straight from a table row.
DirectItems ==
    {"revenue", "earnings_per_share", "net_income", "free_cash_flow",
     "cash_and_equivalents", "total_debt", "shareholders_equity", "Total Debt"}

\* C10: an annual call whose data-layer calls succeed returns: the empty list
\* when all three tables are missing or empty; otherwise records built from
\* the tables that have data: one per period of those tables up to the
\* limit, each dated and filled from them.
C10_EmptyTablesEmptyResult ==
    (request # None /\ request[1].period = "annual" /\ statements.fault = 0) =>
        /\ ~response[1].raised
        /\ TablesWithData = {} => response[1].records = << >>
        /\ (TablesWithData # {} /\ request[1].limit >= 0) =>
               /\ Len(response[1].records)
                      = Min(request[1].limit, Cardinality(DatesWithData))
               /\ \A i \in 1..Len(response[1].records) :
                      \E date \in DatesWithData :
                          /\ response[1].records[i].period = Year(date)
                          /\ \A k \in DOMAIN response[1].records[i] \cap DirectItems :
                                 response[1].records[i][k] \in NumbersWithData(date)

\* An annual call returned the empty list for tables that were loaded but
\* empty.
C10_AllEmptyReturned ==
    /\ request # None
    /\ request[1].period = "annual"
    /\ request[1].limit > 0
    /\ statements.fault = 0
    /\ statements.income_stmt = <<EmptyNoRows>>
    /\ statements.balance_sheet = <<EmptyNoColumns>>
    /\ statements.cashflow = None
    /\ ~response[1].raised
    /\ response[1].records = << >>

\* The i-th newest of the period-end dates of the tables with data.
NewestDate(i) ==
    CHOOSE date \in DatesWithData :
        Cardinality({other \in DatesWithData : other > date}) = i - 1

\* C11: for a limit >= 0 an annual call that returns gives one record per
\* period-end date of the merged tables, newest first, for exactly the
\* min(limit, number of dates) newest dates, so never more than limit records.
C11_NewestPeriodsWithinLimit ==
    (/\ request # None /\ request[1].period = "annual" /\ request[1].limit >= 0
     /\ statements.fault = 0) =>
        /\ ~response[1].raised
        /\ Len(response[1].records) <= request[1].limit
        /\ Len(response[1].records) <= Cardinality(DatesWithData)
        /\ \/ Len(response[1].records) = request[1].limit
           \/ Len(response[1].records) = Cardinality(DatesWithData)
        /\ \A i \in 1..Len(response[1].records) :
               response[1].records[i].period = NewestDate(i) \div 100
        /\ \A i \in 1..(Len(response[1].records) - 1) :
               response[1].records[i].period >= response[1].records[i + 1].period

\* A call with limit 2 on tables that span more than two years returned the
\* two newest years, newest first.
C11_TruncatedToNewest ==
    /\ request # None
    /\ request[1].period = "annual"
    /\ request[1].limit = 2
    /\ statements.fault = 0
    /\ Cardinality(DatesWithData) > 2
    /\ ~response[1].raised
    /\ Len(response[1].records) = 2
    /\ response[1].records[1].period > response[1].records[2].period

\* The labels under which some table with data holds a number for a date.
LabelsHeld(date) ==
    UNION {{label \in DOMAIN table.rows : Cell(table, label, date) # None} :
           table \in TablesWithData}

RevenueLabels == {"Total Revenue", "Operating Revenue"}

NetIncomeLabels == {"Net Income", "Net Income Common Stockholders"}

DepreciationLabels == {"Reconciled Depreciation", "Depreciation And Amortization"}

\* The ways a requested item can get a value: each way is a set of label
\* groups, and needs a number under a label of every group.  The direct
\* lookup first, then the fallbacks; "ev" has none.
Sources(item) ==
    IF item = "gross_margin" THEN {{{"Gross Profit"}, RevenueLabels}}
    ELSE IF item = "operating_margin" THEN {{{"Operating Income"}, RevenueLabels}}
    ELSE IF item = "ebit"
    THEN {{{"EBIT"}},
          {NetIncomeLabels, {"Interest Expense"}, {"Tax Provision"}}}
    ELSE IF item = "ebitda"
    THEN {{{"EBITDA"}},
          {{"EBIT"}, DepreciationLabels},
          {NetIncomeLabels, {"Interest Expense"}, {"Tax Provision"},
           DepreciationLabels}}
    ELSE IF item \in DOMAIN mapping
    THEN {{{mapping[item][i] : i \in 1..Len(mapping[item])}}} \ {{{}}}
    ELSE {{{item}}}

\* The tables hold what some way of getting the item needs.
Obtainable(item, date) ==
    \E way \in Sources(item) : \A group \in way : group \cap LabelsHeld(date) # {}

\* C12: every record of an annual call has the key period, has no key other
\* than period and the requested items, and has a requested item as a key
\* only if the tables hold what its direct lookup or a fallback needs: an
\* item that is absent is left out, not kept with a placeholder.
C12_RecordKeys ==
    (request # None /\ ~response[1].raised) =>
        \A i \in 1..Len(response[1].records) :
            /\ "period" \in DOMAIN response[1].records[i]
            /\ DOMAIN response[1].records[i] \ {"period"}
                   \subseteq {request[1].line_items[j] :
                                 j \in 1..Len(request[1].line_items)}
            /\ \A k \in DOMAIN response[1].records[i] \ {"period"} :
                   Obtainable(k, NewestDate(i))

\* A record that has the requested revenue and leaves out the requested
\* free cash flow, EBIT and EBITDA, which the tables do not hold for its
\* date (no tax provision for the EBIT fallback).
C12_AbsentItemOmitted ==
    /\ request # None
    /\ request[1].line_items = AgentLineItems
    /\ ~response[1].raised
    /\ \E i \in 1..Len(response[1].records) :
           /\ "revenue" \in DOMAIN response[1].records[i]
           /\ "net_income" \in DOMAIN response[1].records[i]
           /\ "free_cash_flow" \notin DOMAIN response[1].records[i]
           /\ "ebit" \notin DOMAIN response[1].records[i]
           /\ "ebitda" \notin DOMAIN response[1].records[i]

(***************************************************************************)
(* Properties of the sub-scales                                            *)
(***************************************************************************)

\* C13: a scorer whose precondition fails (growth: fewer than 2 records;
\* risk/reward: no records or no prices; valuation: no records or no market
\* cap) returns score 0 with its one explanatory sentence and the sentence
\* of no sub-scale; a market cap of 0 is a market cap: with records the
\* valuation goes through its four sub-scales.
C13_PreconditionsStop ==
    \A i \in 1..Len(returned) :
        /\ PreconditionFails(i) =>
               /\ ~returned[i].result.raised
               /\ returned[i].result.score = 0
               /\ returned[i].result.details =
                      (IF returned[i].scorer = "analyze_growth_and_momentum"
                       THEN "Insufficient financial data for growth analysis"
                       ELSE IF returned[i].scorer = "analyze_risk_reward"
                       THEN "Insufficient data for risk-reward analysis"
                       ELSE "Insufficient data to perform valuation")
        /\ (/\ returned[i].scorer = "analyze_valuation"
            /\ Len(ItemsOf(i)) > 0
            /\ MarketCapOf(i) = <<0>>) =>
               /\ ~returned[i].result.raised
               /\ returned[i].result.details \in ValuationTrails

\* The growth scorer stopped at its precondition for a single record that
\* has a revenue, with a price list long enough for the momentum sub-scale.
C13_SingleRecordStops ==
    \E i \in 1..Len(returned) :
        /\ returned[i].scorer = "analyze_growth_and_momentum"
        /\ Len(ItemsOf(i)) = 1
        /\ "revenue" \in DOMAIN ItemsOf(i)[1]
        /\ Len(PricesOf(i)) > MomentumMinPrices
        /\ returned[i].result.score = 0
        /\ returned[i].result.details
               = "Insufficient financial data for growth analysis"

\* The points the CAGR sub-scales award when (latest / older) ** (1 / n) - 1
\* is compared as an exact number: above 8% 3, above 4% 2, above 1% 1.
StrictTier(latest, older, n) ==
    IF latest * Pow(100, n) > older * Pow(108, n) THEN 3
    ELSE IF latest * Pow(100, n) > older * Pow(104, n) THEN 2
    ELSE IF latest * Pow(100, n) > older * Pow(101, n) THEN 1
    ELSE 0

\* The sentence that goes with the points of the revenue and EPS sub-scales.
RevenueSentenceOf(points) ==
    CASE points = 3 -> "Strong annualized revenue growth: {rev_growth:.1%}"
      [] points = 2 -> "Moderate annualized revenue growth: {rev_growth:.1%}"
      [] points = 1 -> "Slight annualized revenue growth: {rev_growth:.1%}"
      [] OTHER -> "Minimal/negative revenue growth: {rev_growth:.1%}"

EpsSentenceOf(points) ==
    CASE points = 3 -> "Strong annualized EPS growth: {eps_growth:.1%}"
      [] points = 2 -> "Moderate annualized EPS growth: {eps_growth:.1%}"
      [] points = 1 -> "Slight annualized EPS growth: {eps_growth:.1%}"
      [] OTHER -> "Minimal/negative annualized EPS growth: {eps_growth:.1%}"

\* C14: for records with at least 2 available revenues whose newest and
\* oldest are positive, the revenue sub-scale awards the points of
\* growth = (latest/oldest)^(1/n) - 1, n = number of revenues - 1, under
\* strict thresholds (> 0.08: 3, > 0.04: 2, > 0.01: 1, else 0), so that a
\* growth of exactly 0.08 earns 2; the EPS sub-scale does the same with
\* earnings_per_share.
C14_StrictCagrThresholds ==
    \A i \in 1..Len(returned) :
        (/\ returned[i].scorer = "analyze_growth_and_momentum"
         /\ ~PreconditionFails(i)
         /\ NumericArguments(i)
         /\ ~returned[i].result.raised) =>
            LET revenues == Values(ItemsOf(i), "revenue")
                eps_values == Values(ItemsOf(i), "earnings_per_share")
            IN  /\ (/\ Len(revenues) >= 2
                    /\ revenues[1] > 0
                    /\ revenues[Len(revenues)] > 0) =>
                       returned[i].result.details \in
                           {Join(<<RevenueSentenceOf(StrictTier(
                                       revenues[1], revenues[Len(revenues)],
                                       Len(revenues) - 1)), b, c>>) :
                               b \in EpsSentences, c \in MomentumSentences}
                /\ (/\ Len(eps_values) >= 2
                    /\ eps_values[1] > 0
                    /\ eps_values[Len(eps_values)] > 0) =>
                       returned[i].result.details \in
                           {Join(<<a, EpsSentenceOf(StrictTier(
                                       eps_values[1], eps_values[Len(eps_values)],
                                       Len(eps_values) - 1)), c>>) :
                               a \in RevenueSentences, c \in MomentumSentences}

\* The points and sentence of a price change (last - first) / first compared
\* as an exact number: above 0.50 3, above 0.20 2, above 0 1, otherwise 0.
MomentumOf(first, last) ==
    IF (last - first) * 2 > first
    THEN Sub(3, "Very strong price momentum: {pct_change:.1%}")
    ELSE IF (last - first) * 5 > first
    THEN Sub(2, "Moderate price momentum: {pct_change:.1%}")
    ELSE IF last > first
    THEN Sub(1, "Slight positive momentum: {pct_change:.1%}")
    ELSE Sub(0, "Negative price momentum: {pct_change:.1%}")

\* The i-th call is a growth call whose details end with the sentence and
\* whose score counts the points for the momentum sub-scale.
MomentumWas(i, sub) ==
    /\ returned[i].result.details \in
           {Join(<<a, b, sub.msg>>) : a \in RevenueSentences, b \in EpsSentences}
    /\ returned[i].result.score =
           ScaleScore(RevenueGrowth(ItemsOf(i)).pts + EpsGrowth(ItemsOf(i)).pts
                          + sub.pts, 9)

\* C15: the momentum sub-scale is evaluated only for a price list of more
\* than 30 points whose first close is positive: a list of 30 points or
\* fewer adds 0 with the not-enough-data sentence, and a longer one adds the
\* points of (last close - first close) / first close: > 0.50 gives 3,
\* > 0.20 gives 2, > 0 gives 1, otherwise 0.
C15_MomentumAboveThirtyPoints ==
    \A i \in 1..Len(returned) :
        (/\ returned[i].scorer = "analyze_growth_and_momentum"
         /\ ~PreconditionFails(i)
         /\ NumericArguments(i)) =>
            LET closes == Values(PricesOf(i), "close") IN
            /\ ~returned[i].result.raised
            /\ IF Len(PricesOf(i)) <= 30
               THEN MomentumWas(i, Sub(0,
                        "Not enough recent price data for momentum analysis."))
               ELSE IF Len(closes) < 2
               THEN MomentumWas(i, Sub(0,
                        "Insufficient price data for momentum calculation."))
               ELSE IF closes[1] <= 0
               THEN MomentumWas(i, Sub(0,
                        "Invalid start price (<= 0); can't compute momentum."))
               ELSE MomentumWas(i, MomentumOf(closes[1], closes[Len(closes)]))

\* A list of exactly 30 points rising from 10 to 16 got the not-enough-data
\* sentence.
C15_ThirtyPointsNotEnough ==
    \E i \in 1..Len(returned) :
        /\ returned[i].scorer = "analyze_growth_and_momentum"
        /\ ~PreconditionFails(i)
        /\ Len(PricesOf(i)) = 30
        /\ PricesOf(i)[1] = [close |-> 10]
        /\ PricesOf(i)[30] = [close |-> 16]
        /\ MomentumWas(i, Sub(0,
               "Not enough recent price data for momentum analysis."))

\* debt / equity < a / b as exact numbers, for equity # 0.
ExactlyBelow(debt, equity, a, b) ==
    IF equity > 0 THEN debt * b < a * equity ELSE debt * b > a * equity

\* The points and sentence of a debt-to-equity ratio under exclusive upper
\* bounds 0.3, 0.7 and 1.5.  With an equity of 0 the divisor is 1e-9: the
\* ratio of an integer debt is then 0, at least 1e9 or at most -1e9.
LeverageOf(debt, equity) ==
    IF (equity = 0 /\ debt <= 0) \/ (equity # 0 /\ ExactlyBelow(debt, equity, 3, 10))
    THEN Sub(3, "Low debt-to-equity: {de_ratio:.2f}")
    ELSE IF equity # 0 /\ ExactlyBelow(debt, equity, 7, 10)
    THEN Sub(2, "Moderate debt-to-equity: {de_ratio:.2f}")
    ELSE IF equity # 0 /\ ExactlyBelow(debt, equity, 15, 10)
    THEN Sub(1, "Somewhat high debt-to-equity: {de_ratio:.2f}")
    ELSE Sub(0, "High debt-to-equity: {de_ratio:.2f}")

\* The i-th call is a risk/reward call whose details open with the sentence
\* and whose score counts the points for the leverage sub-scale.
LeverageWas(i, sub) ==
    /\ ~returned[i].result.raised
    /\ returned[i].result.details \in
           {Join(<<sub.msg, b>>) : b \in VolatilitySentences}
    /\ returned[i].result.score =
           ScaleScore(sub.pts + Volatility(PricesOf(i)).pts, 6)

\* The leverage sub-scale of the i-th call computes a ratio.
ComputesRatio(i) ==
    /\ returned[i].scorer = "analyze_risk_reward"
    /\ ~PreconditionFails(i)
    /\ NumericArguments(i)
    /\ Len(Values(ItemsOf(i), "total_debt")) > 0
    /\ Len(Values(ItemsOf(i), "total_debt"))
           = Len(Values(ItemsOf(i), "shareholders_equity"))

\* C16: the leverage sub-scale awards the points of debt / equity under
\* exclusive upper bounds: below 0.3 gives 3, below 0.7 gives 2, below 1.5
\* gives 1, otherwise 0 (30 / 100 earns 2); an equity that is present and 0
\* is replaced by 1e-9, so the division never fails.
C16_LeverageExclusiveBounds ==
    \A i \in 1..Len(returned) :
        ComputesRatio(i) =>
            LeverageWas(i, LeverageOf(Values(ItemsOf(i), "total_debt")[1],
                                      Values(ItemsOf(i), "shareholders_equity")[1]))

\* Debt 30 with equity 100 earned the 2 points of the middle tier.
C16_ThirtyOverHundredEarnsTwo ==
    \E i \in 1..Len(returned) :
        /\ ComputesRatio(i)
        /\ Len(ItemsOf(i)) = 1
        /\ ItemsOf(i)[1] = [total_debt |-> 30, shareholders_equity |-> 100]
        /\ LeverageWas(i, Sub(2, "Moderate debt-to-equity: {de_ratio:.2f}"))

\* C19: whenever the leverage sub-scale computes a ratio, the debt and the
\* equity it divides are the total_debt and shareholders_equity of the
\* newest record (index 0); if either is missing from the newest record, or
\* the two series are not both present with equal length, leverage adds 0
\* points.
C19_RatioOfNewestPeriod ==
    \A i \in 1..Len(returned) :
        (/\ returned[i].scorer = "analyze_risk_reward"
         /\ ~PreconditionFails(i)
         /\ NumericArguments(i)) =>
            IF /\ ComputesRatio(i)
               /\ "total_debt" \in DOMAIN ItemsOf(i)[1]
               /\ "shareholders_equity" \in DOMAIN ItemsOf(i)[1]
            THEN LeverageWas(i, LeverageOf(ItemsOf(i)[1].total_debt,
                                           ItemsOf(i)[1].shareholders_equity))
            ELSE \E sentence \in LeverageSentences :
                     LeverageWas(i, Sub(0, sentence))

\* The points and sentence of one valuation multiple num / den: nothing when
\* its guard fails, otherwise 2 below lo, 1 below hi, 0 from hi on.  The
\* sentences are those of 2 points, 1 point, 0 points and the failed guard.
Multiple(num, den, guard, lo, hi, sentences) ==
    IF ~guard THEN Sub(0, sentences[4])
    ELSE IF num < lo * den THEN Sub(2, sentences[1])
    ELSE IF num < hi * den THEN Sub(1, sentences[2])
    ELSE Sub(0, sentences[3])

\* C17: analyze_valuation takes EV = market cap + latest total_debt (0 if
\* none) - latest cash_and_equivalents (0 if none) and gives each multiple
\* points only under its guard: P/E (net income > 0) and P/FCF (free cash
\* flow > 0) below 15 give 2, below 25 give 1; EV/EBIT (EV > 0, EBIT > 0)
\* below 15 gives 2, below 25 gives 1; EV/EBITDA (EV > 0, EBITDA > 0) below
\* 10 gives 2, below 18 gives 1; a failed guard gives 0 points and the
\* sentence naming it, and no division by zero is raised.
C17_ValuationMultiples ==
    \A i \in 1..Len(returned) :
        (/\ returned[i].scorer = "analyze_valuation"
         /\ ~PreconditionFails(i)
         /\ NumericArguments(i)) =>
            LET cap == MarketCapOf(i)[1]
                ev == cap + FirstOrZero(Values(ItemsOf(i), "total_debt"))
                          - FirstOrZero(Values(ItemsOf(i), "cash_and_equivalents"))
                ni == FirstOrZero(Values(ItemsOf(i), "net_income"))
                fcf == FirstOrZero(Values(ItemsOf(i), "free_cash_flow"))
                ebit == FirstOrZero(Values(ItemsOf(i), "ebit"))
                ebitda == FirstOrZero(Values(ItemsOf(i), "ebitda"))
                subs ==
                    <<Multiple(cap, ni, ni > 0, 15, 25,
                          <<"Attractive P/E: {pe:.2f}", "Fair P/E: {pe:.2f}",
                            "High or Very high P/E: {pe:.2f}",
                            "No positive net income for P/E calculation">>),
                      Multiple(cap, fcf, fcf > 0, 15, 25,
                          <<"Attractive P/FCF: {pfcf:.2f}", "Fair P/FCF: {pfcf:.2f}",
                            "High/Very high P/FCF: {pfcf:.2f}",
                            "No positive free cash flow for P/FCF calculation">>),
                      Multiple(ev, ebit, ev > 0 /\ ebit > 0, 15, 25,
                          <<"Attractive EV/EBIT: {ev_ebit:.2f}",
                            "Fair EV/EBIT: {ev_ebit:.2f}",
                            "High EV/EBIT: {ev_ebit:.2f}",
                            "No valid EV/EBIT because EV <= 0 or EBIT <= 0">>),
                      Multiple(ev, ebitda, ev > 0 /\ ebitda > 0, 10, 18,
                          <<"Attractive EV/EBITDA: {ev_ebitda:.2f}",
                            "Fair EV/EBITDA: {ev_ebitda:.2f}",
                            "High EV/EBITDA: {ev_ebitda:.2f}",
                            "No valid EV/EBITDA because EV <= 0 or EBITDA <= 0">>)>>
            IN  /\ ~returned[i].result.raised
                /\ returned[i].result.details
                       = Join([j \in 1..4 |-> subs[j].msg])
                /\ returned[i].result.score = ScaleScore(SumPoints(subs), 8)

\* A market cap of 1000 with a latest net income of 0: the valuation
\* returned, with the P/E sentence of the failed guard, and scored another
\* multiple.
C17_ZeroNetIncomeNoDivision ==
    \E i \in 1..Len(returned) :
        /\ returned[i].scorer = "analyze_valuation"
        /\ MarketCapOf(i) = <<1000>>
        /\ First(Values(ItemsOf(i), "net_income")) = <<0>>
        /\ ~returned[i].result.raised
        /\ returned[i].result.score > 0
        /\ returned[i].result.details \in
               {Join(<<"No positive net income for P/E calculation", b, c, d>>) :
                   b \in PriceFreeCashFlowSentences, c \in EvEbitSentences,
                   d \in EvEbitdaSentences}

\* The population variance as the mean of the squared deviations from the
\* mean.
MeanSquaredDeviation(xs) ==
    LET N == Len(xs)
        mean == RMul(RSum(xs), Rat(1, N))
        dev(i) == RAdd(xs[i], RNeg(mean))
    IN  RMul(RSum([i \in 1..N |-> RMul(dev(i), dev(i))]), Rat(1, N))

\* The points and sentence of a population standard deviation under the
\* inverted thresholds 0.01, 0.02 and 0.04 (compared through the variance).
VolatilityOf(returns) ==
    LET v == MeanSquaredDeviation(returns) IN
    IF FracLess(v.n, v.d, 1, 10000)
    THEN Sub(3, "Low volatility: daily returns stdev {stdev:.2%}")
    ELSE IF FracLess(v.n, v.d, 4, 10000)
    THEN Sub(2, "Moderate volatility: daily returns stdev {stdev:.2%}")
    ELSE IF FracLess(v.n, v.d, 16, 10000)
    THEN Sub(1, "High volatility: daily returns stdev {stdev:.2%}")
    ELSE Sub(0, "Very high volatility: daily returns stdev {stdev:.2%}")

\* The k-th of the pairs of consecutive closes whose previous close is
\* positive, as the index of its later close.
UsablePair(closes, k) ==
    CHOOSE i \in 2..Len(closes) :
        /\ closes[i - 1] > 0
        /\ Cardinality({j \in 2..(i - 1) : closes[j - 1] > 0}) = k - 1

\* The i-th call is a risk/reward call whose details end with the sentence
\* and whose score counts the points for the volatility sub-scale.
VolatilityWas(i, sub) ==
    /\ returned[i].result.details \in
           {Join(<<a, sub.msg>>) : a \in LeverageSentences}
    /\ returned[i].result.score =
           ScaleScore(Leverage(ItemsOf(i)).pts + sub.pts, 6)

\* C20: the volatility sub-scale is evaluated only with more than 10 price
\* points; its returns are (close[i] - close[i-1]) / close[i-1] over the
\* consecutive closes, without the pairs whose previous close is not
\* positive; the population standard deviation of the returns below 0.01
\* gives 3, below 0.02 gives 2, below 0.04 gives 1, otherwise 0; without a
\* usable return the sub-scale adds 0.
C20_VolatilityOfUsableReturns ==
    \A i \in 1..Len(returned) :
        (/\ returned[i].scorer = "analyze_risk_reward"
         /\ ~PreconditionFails(i)
         /\ NumericArguments(i)) =>
            LET closes == Values(PricesOf(i), "close")
                usable == {j \in 2..Len(closes) : closes[j - 1] > 0}
                returns ==
                    [k \in 1..Cardinality(usable) |->
                        Rat(closes[UsablePair(closes, k)]
                                - closes[UsablePair(closes, k) - 1],
                            closes[UsablePair(closes, k) - 1])]
            IN  /\ ~returned[i].result.raised
                /\ IF Len(PricesOf(i)) <= 10
                   THEN VolatilityWas(i, Sub(0,
                            "Not enough price data for volatility analysis."))
                   ELSE IF Len(closes) <= 10
                   THEN VolatilityWas(i, Sub(0,
                            "Not enough close-price data points for volatility analysis."))
                   ELSE IF usable = {}
                   THEN VolatilityWas(i, Sub(0,
                            "Insufficient daily returns data for volatility calc."))
                   ELSE VolatilityWas(i, VolatilityOf(returns))

\* Twelve closes going 10, 0, ..., 0, 10: the only usable return is the
\* first, -1, whose deviation is 0, and the sub-scale gave its 3 points.
C20_NonPositiveCloseSkipped ==
    \E i \in 1..Len(returned) :
        /\ returned[i].scorer = "analyze_risk_reward"
        /\ ~PreconditionFails(i)
        /\ Len(PricesOf(i)) = 12
        /\ \A j \in 1..12 :
               PricesOf(i)[j] = [close |-> IF j \in {1, 12} THEN 10 ELSE 0]
        /\ VolatilityWas(i, Sub(3, "Low volatility: daily returns stdev {stdev:.2%}"))

(***************************************************************************)
(* Properties of yf_get_insider_trades                                     *)
(***************************************************************************)

\* The returned trades run from the newest transaction date to the oldest,
\* the undated ones after the dated ones.
TradesDescend(trades) ==
    \A i \in 1..Len(trades), j \in 1..Len(trades) :
        (i < j /\ trades[j].transaction_date # None) =>
            /\ trades[i].transaction_date # None
            /\ trades[i].transaction_date[1] >= trades[j].transaction_date[1]

\* Every dated trade lies between the two optional days.
TradesWithin(trades, start, end) ==
    \A i \in 1..Len(trades) :
        trades[i].transaction_date # None =>
            /\ start # None => start[1] <= trades[i].transaction_date[1]
            /\ end # None => trades[i].transaction_date[1] <= end[1]

\* The start_date of a call as a day: None when no start_date was given or
\* it is not an ISO date.
StartOf(call) ==
    IF call.start_date = None THEN None ELSE fromisoformat(call.start_date[1])

\* C18 as stated: yf_get_insider_trades returns at most limit records, by
\* transaction date descending; every returned record with a transaction
\* date has start_date <= date <= end_date; every record's ticker is the
\* requested ticker.
C18_TradesWithinLimitAndWindow ==
    insider_call # None =>
        /\ Len(insider_trades[1]) <= insider_call[1].limit
        /\ TradesDescend(insider_trades[1])
        /\ TradesWithin(insider_trades[1], StartOf(insider_call[1]),
                        fromisoformat(insider_call[1].end_date))
        /\ \A i \in 1..Len(insider_trades[1]) :
               insider_trades[1][i].ticker = insider_call[1].ticker

\* C18, amended: for a limit >= 0 the call returns at most limit records;
\* the records run by transaction date descending, the undated ones last;
\* when end_date and start_date (if given) are ISO dates, every dated record
\* has start_date <= date <= end_date, and otherwise every dated record is
\* no later than the current time; every record's ticker is the requested
\* ticker in upper case.
C18_TradesWithinWindowUpperCased ==
    insider_call # None =>
        LET call == insider_call[1]
            trades == insider_trades[1]
            parsed == /\ fromisoformat(call.end_date) # None
                      /\ (call.start_date \in {None, <<"">>}
                          \/ StartOf(call) # None)
        IN  /\ call.limit >= 0 => Len(trades) <= call.limit
            /\ TradesDescend(trades)
            /\ IF parsed
               THEN TradesWithin(trades, StartOf(call), fromisoformat(call.end_date))
               ELSE TradesWithin(trades, None, <<call.now>>)
            /\ \A i \in 1..Len(trades) : trades[i].ticker = upper(call.ticker)

\* A call for "msft" with limit 2 over a window that holds more than two
\* dated trades returned the two newest, under the ticker "MSFT".
C18_LowerCaseTickerTruncated ==
    /\ insider_call # None
    /\ insider_call[1].ticker = "msft"
    /\ insider_call[1].limit = 2
    /\ insider_call[1].end_date = "2024-12-31"
    /\ insider_call[1].start_date = <<"2024-03-01">>
    /\ Len(insider_trades[1]) = 2
    /\ insider_trades[1][1].transaction_date = <<20241231>>
    /\ insider_trades[1][2].transaction_date = <<20240701>>
    /\ insider_trades[1][1].ticker = "MSFT"

(***************************************************************************)
(* Properties of the aliases and fallbacks of yf_search_line_items         *)
(***************************************************************************)

\* The tables with data in the order they are concatenated: income
\* statement, balance sheet, cash flow.
HeldTables ==
    LET WithData(x) == x # None /\ DOMAIN x[1].rows # {} /\ Len(x[1].columns) > 0
    IN  SelectSeq(<<statements.income_stmt, statements.balance_sheet,
                    statements.cashflow>>, WithData)

\* The number the data holds under a source field for a date: that of the
\* first table carrying the field, None when it is missing.
HeldCell(label, date) ==
    LET carriers == {i \in 1..Len(HeldTables) : label \in DOMAIN HeldTables[i][1].rows}
    IN  IF carriers = {} THEN None
        ELSE Cell(HeldTables[CHOOSE i \in carriers : \A j \in carriers : i <= j][1],
                  label, date)

\* The value of the first alias, in order, that is present and not missing.
FirstAlias(aliases, date) ==
    LET hits == {i \in 1..Len(aliases) : HeldCell(aliases[i], date) # None}
    IN  IF hits = {} THEN None
        ELSE HeldCell(aliases[CHOOSE i \in hits : \A j \in hits : i <= j], date)

\* C21: for each requested metric and each period, the record's value is
\* that of the first of the metric's aliases, in priority order, that is
\* present with a non-missing value; a later alias is used only when every
\* earlier one is absent or missing in that period, and a metric without a
\* fallback whose aliases are all absent or missing is left out.
C21_FirstAliasWins ==
    (request # None /\ ~response[1].raised) =>
        \A i \in 1..Len(response[1].records) :
            \A j \in 1..Len(request[1].line_items) :
                LET item == request[1].line_items[j]
                    value == FirstAlias(mapping[item], NewestDate(i))
                IN  (item \in DOMAIN mapping /\ Len(mapping[item]) > 0) =>
                        /\ value # None =>
                               /\ item \in DOMAIN response[1].records[i]
                               /\ response[1].records[i][item] = value[1]
                        /\ (value = None /\ item \notin {"ebit", "ebitda"}) =>
                               item \notin DOMAIN response[1].records[i]

\* Revenue came from Operating Revenue (104) in the period where Total
\* Revenue is missing, and from Total Revenue (100, not 99) in the period
\* where both are held.
C21_SecondAliasOnlyWhenFirstMissing ==
    /\ request # None
    /\ ~response[1].raised
    /\ statements.income_stmt = <<IncomeAliased>>
    /\ Len(response[1].records) >= 2
    /\ response[1].records[1].period = 2023
    /\ "revenue" \in DOMAIN response[1].records[1]
    /\ response[1].records[1].revenue = 104
    /\ "revenue" \in DOMAIN response[1].records[2]
    /\ response[1].records[2].revenue = 100

\* What the record of a date is to hold for ebit: the directly reported
\* EBIT, else net income + interest expense + tax provision when the three
\* are held, else nothing.
EbitDue(date) ==
    LET net_income == FirstAlias(<<"Net Income", "Net Income Common Stockholders">>, date)
        interest_expense == HeldCell("Interest Expense", date)
        tax_provision == HeldCell("Tax Provision", date)
    IN  IF HeldCell("EBIT", date) # None THEN HeldCell("EBIT", date)
        ELSE IF net_income # None /\ interest_expense # None /\ tax_provision # None
        THEN <<net_income[1] + interest_expense[1] + tax_provision[1]>>
        ELSE None

\* And for ebitda: the directly reported EBITDA, else the ebit above plus
\* depreciation and amortization when both are held, else nothing.
EbitdaDue(date) ==
    LET depreciation ==
            FirstAlias(<<"Reconciled Depreciation", "Depreciation And Amortization">>,
                       date)
    IN  IF HeldCell("EBITDA", date) # None THEN HeldCell("EBITDA", date)
        ELSE IF EbitDue(date) # None /\ depreciation # None
        THEN <<EbitDue(date)[1] + depreciation[1]>>
        ELSE None

\* The record holds exactly the value due for the item: none, no key.
HoldsDue(record, item, due) ==
    IF due = None THEN item \notin DOMAIN record
    ELSE item \in DOMAIN record /\ record[item] = due[1]

\* C22: a directly reported EBIT or EBITDA always wins; only when it is
\* absent, ebit is net_income + interest_expense + tax_provision if all three
\* are present, and ebitda is (direct EBIT, else that fallback) +
\* depreciation_and_amortization if both are present; with incomplete
\* fallback inputs the metric is left out of the record.
C22_EbitFallbacks ==
    (request # None /\ ~response[1].raised) =>
        \A i \in 1..Len(response[1].records) :
            \A j \in 1..Len(request[1].line_items) :
                /\ request[1].line_items[j] = "ebit" =>
                       HoldsDue(response[1].records[i], "ebit",
                                EbitDue(NewestDate(i)))
                /\ request[1].line_items[j] = "ebitda" =>
                       HoldsDue(response[1].records[i], "ebitda",
                                EbitdaDue(NewestDate(i)))

\* Without EBIT and EBITDA rows: the newest record got ebit 40 + 5 + 10 and
\* ebitda 55 + 20, the older one, whose tax provision is missing, neither.
C22_FallbackComputedOrOmitted ==
    /\ request # None
    /\ ~response[1].raised
    /\ statements.income_stmt = <<IncomeAliased>>
    /\ Len(response[1].records) >= 2
    /\ response[1].records[1].period = 2023
    /\ "ebit" \in DOMAIN response[1].records[1]
    /\ "ebitda" \in DOMAIN response[1].records[1]
    /\ response[1].records[1].ebit = 55
    /\ response[1].records[1].ebitda = 75
    /\ "revenue" \in DOMAIN response[1].records[2]
    /\ "ebit" \notin DOMAIN response[1].records[2]
    /\ "ebitda" \notin DOMAIN response[1].records[2]

(***************************************************************************)
(* Properties of call_llm                                                  *)
(***************************************************************************)

\* The call in progress is one of the function named.
LlmCallOf(function) == llm_call # None /\ llm_call[1].function = function

\* Every exception of errs but the last is an APIConnectionError.
OnlyLastMayDiffer(errs) ==
    \A i \in 1..(Len(errs) - 1) : errs[i] = "APIConnectionError"

\* C23: call_llm invokes the chain at most 3 times.  Every invocation but
\* the one in progress or returned has raised, and every exception but the
\* last was an APIConnectionError, so only an APIConnectionError is retried;
\* the sleeps are 0.5 s after the first failure and 1 s after the second; a
\* return ends the call on its first success, an APIConnectionError leaves
\* the call only as the third failure, and any other exception leaves it at
\* once.
C23_RetriesConnectionErrorsThrice ==
    LlmCallOf("call_llm") =>
        /\ llm_invocations <= 3
        /\ OnlyLastMayDiffer(llm_errors)
        /\ llm_outcome = "ValueError" =>
              llm_invocations = 0 /\ llm_errors = << >>
        /\ llm_outcome \in {"invoking", "returned"} =>
              /\ llm_invocations = Len(llm_errors) + 1
              /\ \A i \in 1..Len(llm_errors) :
                    llm_errors[i] = "APIConnectionError"
              /\ llm_slept = SubSeq(<<500, 1000>>, 1, Len(llm_errors))
        /\ llm_outcome \in LlmErrors =>
              /\ llm_invocations = Len(llm_errors)
              /\ llm_errors[Len(llm_errors)] = llm_outcome
              /\ llm_slept = SubSeq(<<500, 1000>>, 1, Len(llm_errors) - 1)
              /\ llm_outcome = "APIConnectionError" => llm_invocations = 3
        /\ llm_outcome # "streaming"

\* call_llm has failed three times on the connection and re-raised, after
\* sleeping 0.5 s and 1 s.
C23_ThirdConnectionErrorRaised ==
    /\ LlmCallOf("call_llm")
    /\ llm_outcome = "APIConnectionError"
    /\ llm_invocations = 3
    /\ llm_slept = <<500, 1000>>

(***************************************************************************)
(* Properties of call_llm_stream                                           *)
(***************************************************************************)

\* The contents of a response that a consumer is to receive, in order: those
\* of the chunks that carry a non-empty content.
Contents(chunks) ==
    LET Carries(chunk) == chunk # None /\ chunk[1] # ""
        Content(i) == SelectSeq(chunks, Carries)[i][1]
    IN  [i \in 1..Len(SelectSeq(chunks, Carries)) |-> Content(i)]

\* C27: the consumer of call_llm_stream receives each piece of the response
\* content at most once and in order: what has been yielded is at all times
\* a prefix of the contents of the response, also after an attempt failed
\* with an APIConnectionError and the stream was started again.
C27_ContentDeliveredOnce ==
    LlmCallOf("call_llm_stream") =>
        /\ Len(llm_yielded) <= Len(Contents(llm_call[1].response))
        /\ llm_yielded =
              SubSeq(Contents(llm_call[1].response), 1, Len(llm_yielded))

(***************************************************************************)
(* Properties of get_chat_model                                            *)
(***************************************************************************)

\* The langchain chat model class of the vendor a menu entry describes.
ChatModelOf(description) ==
    CASE description = "OpenAI" -> "ChatOpenAI"
      [] description = "Anthropic" -> "ChatAnthropic"
      [] description = "Google" -> "ChatGoogleGenerativeAI"

\* C30: for every provider select_model_provider can return, the chat model
\* built by get_chat_model for that provider was given the key read from
\* that provider's variable LLM_API_<PROVIDER>_KEY and is of that provider's
\* class: ChatOpenAI for openai, ChatAnthropic for anthropic,
\* ChatGoogleGenerativeAI for google.
C30_ClientOfSelectedProvider ==
    \A i \in DOMAIN MODELS :
        (/\ llm_client # None
         /\ llm_call[1].model = MODELS[i].model_provider) =>
            /\ llm_client[1].llm.read = ApiKeyVar(MODELS[i].model_provider)
            /\ llm_client[1].llm.api_key =
                  llm_env[ApiKeyVar(MODELS[i].model_provider)]
            /\ llm_client[1].llm.class = ChatModelOf(MODELS[i].description)

(***************************************************************************)
(* Properties of the Tavily client                                         *)
(***************************************************************************)

\* The key a call found was unset or empty.
KeyUnset(call) == call.key = None \/ call.key = <<"">>

\* No call before the i-th had a client built.
NoneBuiltBefore(i) == \A j \in 1..(i - 1) : tavily_calls[j].raised

\* C24: the search client is a lazy singleton.  At most one TavilySearch is
\* ever constructed, by the first call that finds the key set, and it is the
\* cached one; every call after that construction asks this instance,
\* whatever the key is by then; a call that finds the key unset while no
\* client exists raises ValueError and caches nothing, and the next call
\* with the key set constructs.
C24_LazySingleton ==
    /\ tavily_built <= 1
    /\ tavily_tool = (IF tavily_built = 0 THEN None ELSE <<1>>)
    /\ tavily_built = 0 <=> NoneBuiltBefore(Len(tavily_calls) + 1)
    /\ \A i \in 1..Len(tavily_calls) :
        LET call == tavily_calls[i]
        IN  /\ call.raised <=> (NoneBuiltBefore(i) /\ KeyUnset(call))
            /\ call.raised => call.error = "ValueError"
            /\ ~call.raised => call.returned.results.by = <<1>>

\* A first call found the key unset and raised, a second found it set and
\* constructed the client, and a third, made with the key unset again, was
\* served by the same instance.
C24_ReusedAfterKeyUnset ==
    /\ Len(tavily_calls) = 3
    /\ tavily_calls[1].raised
    /\ ~tavily_calls[2].raised
    /\ ~tavily_calls[3].raised
    /\ KeyUnset(tavily_calls[3])
    /\ tavily_calls[3].returned.results.by =
          tavily_calls[2].returned.results.by
    /\ tavily_built = 1

(***************************************************************************)
(* Properties of the CLI loop                                              *)
(***************************************************************************)

\* The input is the /model command.
IsModelCommand(input) == input.query \in {"/model", " /model "}

\* C29: once main has started, and so after every processed input, the
\* agent in use was constructed with current_model_provider.  A processed
\* input changes the variable, the persisted setting or the agent only if it
\* is /model with a selection made and the key check passed, and then all
\* three are the selection; /model with the selection cancelled or the key
\* check failed changes none of them; and /model is never run by the agent.
C29_AgentFollowsProvider ==
    /\ cli_at # "idle" =>
          agent = current_model_provider /\ current_model_provider # None
    /\ \A i \in 1..Len(processed) :
        LET input == processed[i]
            chosen == /\ IsModelCommand(input)
                      /\ input.selected # None
                      /\ input.has_key
        IN  /\ chosen =>
                  input.after = [current_model_provider |-> input.selected,
                                 setting |-> input.selected,
                                 agent |-> input.selected]
            /\ ~chosen => input.after = input.before
            /\ IsModelCommand(input) => input.run_by = None
            /\ (~IsModelCommand(input) /\ input.query # "") =>
                  input.run_by = input.before.agent

\* In one session /model was answered with a provider whose key check
\* failed, then cancelled, then answered with another provider than the
\* current one whose key check passed.
C29_ProviderChangedOnce ==
    /\ Len(processed) = 3
    /\ processed[1].selected # None /\ ~processed[1].has_key
    /\ IsModelCommand(processed[2]) /\ processed[2].selected = None
    /\ processed[3].selected # None /\ processed[3].has_key
    /\ processed[3].after # processed[3].before
    /\ agent = processed[3].selected

(***************************************************************************)
(* Properties of the leverage sub-scale on non-positive equity             *)
(***************************************************************************)

\* The debt and the equity the leverage sub-scale of the i-th call divides.
DebtUsed(i) == Values(ItemsOf(i), "total_debt")[1]

EquityUsed(i) == Values(ItemsOf(i), "shareholders_equity")[1]

\* C26: in analyze_risk_reward, a positive debt over a negative equity earns
\* the leverage sub-scale its maximum of 3 points, the negative ratio being
\* below 0.3, whereas a positive debt over an equity that is present and 0
\* earns 0 points.
C26_NegativeEquityEarnsThree ==
    \A i \in 1..Len(returned) :
        (ComputesRatio(i) /\ DebtUsed(i) > 0) =>
            /\ EquityUsed(i) < 0 =>
                  LeverageWas(i, Sub(3, "Low debt-to-equity: {de_ratio:.2f}"))
            /\ EquityUsed(i) = 0 =>
                  LeverageWas(i, Sub(0, "High debt-to-equity: {de_ratio:.2f}"))

\* Debt 150 over equity -100, a ratio of -1.5, earned the 3 points.
C26_NegativeEquityScoredLow ==
    \E i \in 1..Len(returned) :
        /\ ComputesRatio(i)
        /\ DebtUsed(i) = 150 /\ EquityUsed(i) = -100
        /\ LeverageWas(i, Sub(3, "Low debt-to-equity: {de_ratio:.2f}"))

(***************************************************************************)
(* Properties of the reported score and the market cap of the agent        *)
(***************************************************************************)

\* The totals the loop can sum: any growth score (raw 0..9) and any
\* risk/reward score (raw 0..6), with the score 0 that analyze_valuation
\* returns for the absent market cap the loop hands it.
AgentTotals ==
    {ScaleScore(g, 9) + ScaleScore(r, 6) + 0 : g \in 0..9, r \in 0..6}

C28_MarketCapReachesValuation ==
    (/\ idx > 0
     /\ snapshot_data # None
     /\ Get(snapshot_data[1].snapshot, "market_cap") # None
     /\ analysis_data[tickers[idx]].growth_momentum_analysis[1].details
           # "Insufficient financial data for growth analysis") =>
        analysis_data[tickers[idx]].valuation_analysis[1].details
            # "Insufficient data to perform valuation"
====
